---- MODULE Spec2Model ----
(***************************************************************************)
(* Verification model of the graph engines of sweetpotato0/blades.         *)
(*                                                                         *)
(* The repository holds several graph implementations side by side.  Each  *)
(* one is modelled as its own state machine with its own specification:    *)
(*   SpecGeneric  flow.Graph[I,O,Option]   src/flow/graph.go:219-344       *)
(*   SpecFlow     flow.Graph (runner keyed) src/flow/graph.go:1-217        *)
(*   SpecNode     flow.GraphNode            src/flow/graph_node.go         *)
(*   SpecGraph    graph.Graph (chaining)    src/graph/graph.go:1-210       *)
(*   SpecBranch   flow.Branch[I,O,Option]   src/flow/branch.go:84-152      *)
(*   SpecParallel Parallel[I,O,Option]      src/graph/graph.go:212-282     *)
(*   SpecSentinel flow.Graph (START/END)    src/unnamed/part_016           *)
(* A specification leaves the variables of the other machines untouched.   *)
(***************************************************************************)
EXTENDS Integers, Sequences, FiniteSets, TLC

VARIABLES gen, genRunner, genRet, gr, grCalls, grRet, fl, flRunner, flRun,
          gn, gnRun, gnSaved,
          br, brRet,
          pa, paRun,
          sg, sgRun,
          stHeap, stInv, stTask,
          sc,
          fc,
          ch, chRet,
          tw, twRet,
          fp, fpRun, fpPrev

genVars == <<gen, genRunner, genRet>>

grVars == <<gr, grCalls, grRet>>

flVars == <<fl, flRunner, flRun>>

gnVars == <<gn, gnRun, gnSaved>>

brVars == <<br, brRet>>

paVars == <<pa, paRun>>

sgVars == <<sg, sgRun>>

stVars == <<stHeap, stInv, stTask>>

scVars == <<sc>>

fcVars == <<fc>>

chVars == <<ch, chRet>>

twVars == <<tw, twRet>>

fpVars == <<fp, fpRun, fpPrev>>

(***************************************************************************)
(* Bounds and input sets.                                                  *)
(***************************************************************************)
\* node names the builders are called with
Names == {"A", "B", "C"}

\* inputs handed to Run / RunStream
Inputs == {1, 10}

\* total number of edges a generic graph is given
MaxEdges == 2

\* number of AddStart calls
MaxStarts == 1

\* number of AddEnd calls
MaxEnds == 1

\* number of builder calls made on a chaining graph
MaxCalls == 5

\* number of AddBranch calls on a runner-keyed graph
MaxBranches == 1

\* number of nodes one Run is followed through
MaxSteps == 4

\* number of GraphNodes linked into one chain
MaxChain == 2

\* number of runners NewBranch is called with
MaxBranchRunners == 2

\* number of runners NewParallel is called with
MaxSiblings == 2

\* number of edge keys of a sentinel-keyed graph, START and END included
MaxSgEdges == 3

\* invocations of one compiled runner
MaxInvocations == 2

\* siblings of the fan-out that write the execution state
MaxStateSiblings == 2

\* characters of a text handed to SentenceChunker.Split
MaxTextLen == 4

\* characters of a content handed to FixedSizeChunker.Split, one longer content apart
MaxContentLen == 5

\* runners of a chain
MaxPipeline == 3

\* runners of a flow.Parallel
MaxFanOut == 2

(***************************************************************************)
(* Runners and edge transforms.  A runner is a deterministic function of   *)
(* its input; runner d maps x to x + d.                                    *)
(***************************************************************************)
Delta == [n \in Names |-> CASE n = "A" -> 1 [] n = "B" -> 2 [] OTHER -> 3]

\* the runners AddNode is called with for a name: the usual one and a second one
RunnersFor(name) == {Delta[name], Delta[name] + 4}

RunNode(r, in) == in + r

\* the state handlers AddEdge is called with
Handlers == {"id", "dbl"}

ApplyHandler(h, o) == IF h = "id" THEN o ELSE 2 * o

Range(f) == {f[x] : x \in DOMAIN f}

MapPut(f, k, v) == [x \in (DOMAIN f) \cup {k} |-> IF x = k THEN v ELSE f[x]]

EmptyMap == [x \in {} |-> 0]

(***************************************************************************)
(* flow.Graph[I,O,Option]: the generic graph.                              *)
(***************************************************************************)
GenNewGraph == [nodes |-> EmptyMap, edges |-> EmptyMap, starts |-> <<>>, ends |-> <<>>]

GenAddNode(g, name, runner) == [g EXCEPT !.nodes = MapPut(g.nodes, name, runner)]

GenEdgesOf(g, from) == IF from \in DOMAIN g.edges THEN g.edges[from] ELSE <<>>

GenAddEdge(g, from, to, h) ==
    [g EXCEPT !.edges = MapPut(g.edges, from,
                               Append(GenEdgesOf(g, from), [name |-> to, stateHandler |-> h]))]

GenAddStart(g, start) == [g EXCEPT !.starts = Append(g.starts, start)]

GenAddEnd(g, end) == [g EXCEPT !.ends = Append(g.ends, end)]

\* Compile: "nil" when a runner is returned, otherwise the error
GenCompile(g) ==
    IF \E from \in DOMAIN g.edges : from \notin DOMAIN g.nodes
    THEN "unknown node"
    ELSE IF \E from \in DOMAIN g.edges : \E i \in 1..Len(g.edges[from]) :
                g.edges[from][i].name \notin DOMAIN g.nodes
         THEN "unknown node"
         ELSE "nil"

\* the inner loop of Run over the edges of one start node; calling the nil
\* stateHandler of an edge added without a transform panics, as does running
\* the nil runner of a name that is not registered
RECURSIVE GenRunEdges(_, _, _, _)
GenRunEdges(g, es, output, trace) ==
    IF es = <<>>
    THEN [trace |-> trace, out |-> output, err |-> "nil"]
    ELSE LET to == Head(es)
             in == ApplyHandler(to.stateHandler, output)
         IN  IF to.stateHandler = "nil" \/ to.name \notin DOMAIN g.nodes
             THEN [trace |-> trace, out |-> output, err |-> "panic"]
             ELSE LET o == RunNode(g.nodes[to.name], in)
                  IN  GenRunEdges(g, Tail(es), o,
                                  Append(trace, [node |-> to.name, in |-> in, out |-> o]))

\* the outer loop of Run over the start nodes
RECURSIVE GenRunStarts(_, _, _, _, _)
GenRunStarts(g, ss, input, output, trace) ==
    IF ss = <<>>
    THEN [trace |-> trace, out |-> output, err |-> "nil"]
    ELSE LET start == Head(ss)
         IN  IF start \notin DOMAIN g.nodes
             THEN [trace |-> trace, out |-> output, err |-> "panic"]
             ELSE LET o == RunNode(g.nodes[start], input)
                      r == GenRunEdges(g, GenEdgesOf(g, start), o,
                                       Append(trace, [node |-> start, in |-> input, out |-> o]))
                  IN  IF r.err # "nil" THEN r
                      ELSE GenRunStarts(g, Tail(ss), input, r.out, r.trace)

GenRun(g, input) == GenRunStarts(g, g.starts, input, 0, <<>>)

\* RunStream: the producer calls Run and sends its one output
GenRunStream(g, input) ==
    LET r == GenRun(g, input)
    IN  [trace |-> r.trace,
         items |-> IF r.err = "nil" THEN <<r.out>> ELSE <<>>,
         err |-> r.err]

GenEdgeCount(g) == LET RECURSIVE Sum(_)
                       Sum(S) == IF S = {} THEN 0
                                 ELSE LET x == CHOOSE y \in S : TRUE
                                      IN  Len(g.edges[x]) + Sum(S \ {x})
                   IN  Sum(DOMAIN g.edges)

\* what the last call returned; the builder calls of the generic graph return nothing
NoRet == [op |-> "none", input |-> 0, trace |-> <<>>, items |-> <<>>, out |-> 0, err |-> "nil"]

\* genRunner: "none" while Compile has returned no runner; otherwise the runner, which
\* keeps a pointer to the builder: "fresh" while the builder is as it was compiled,
\* "stale" once a builder call has changed it
GenTouched(r) == IF r = "none" THEN "none" ELSE "stale"

GenInit ==
    /\ gen = GenNewGraph
    /\ genRunner = "none"
    /\ genRet = NoRet

GenDoAddNode ==
    \E name \in Names : \E r \in RunnersFor(name) :
        /\ gen' = GenAddNode(gen, name, r)
        /\ genRet' = NoRet
        /\ genRunner' = GenTouched(genRunner)
        /\ UNCHANGED <<grVars, flVars, gnVars, brVars, paVars, sgVars, stVars, scVars, fcVars, chVars, twVars, fpVars>>

GenDoAddEdge ==
    \E from \in Names, to \in Names, h \in Handlers :
        /\ GenEdgeCount(gen) < MaxEdges
        /\ gen' = GenAddEdge(gen, from, to, h)
        /\ genRet' = NoRet
        /\ genRunner' = GenTouched(genRunner)
        /\ UNCHANGED <<grVars, flVars, gnVars, brVars, paVars, sgVars, stVars, scVars, fcVars, chVars, twVars, fpVars>>

\* AddEdge called with a nil stateHandler: an edge without a transform
GenDoAddEdgeNoTransform ==
    \E from \in Names, to \in Names :
        /\ GenEdgeCount(gen) < MaxEdges
        /\ gen' = GenAddEdge(gen, from, to, "nil")
        /\ genRet' = NoRet
        /\ genRunner' = GenTouched(genRunner)
        /\ UNCHANGED <<grVars, flVars, gnVars, brVars, paVars, sgVars, stVars, scVars, fcVars, chVars, twVars, fpVars>>

GenDoAddStart ==
    \E start \in Names :
        /\ Len(gen.starts) < MaxStarts
        /\ gen' = GenAddStart(gen, start)
        /\ genRet' = NoRet
        /\ genRunner' = GenTouched(genRunner)
        /\ UNCHANGED <<grVars, flVars, gnVars, brVars, paVars, sgVars, stVars, scVars, fcVars, chVars, twVars, fpVars>>

GenDoAddEnd ==
    \E end \in Names :
        /\ Len(gen.ends) < MaxEnds
        /\ gen' = GenAddEnd(gen, end)
        /\ genRet' = NoRet
        /\ genRunner' = GenTouched(genRunner)
        /\ UNCHANGED <<grVars, flVars, gnVars, brVars, paVars, sgVars, stVars, scVars, fcVars, chVars, twVars, fpVars>>

GenDoCompile ==
    /\ genRet' = [NoRet EXCEPT !.op = "Compile", !.err = GenCompile(gen)]
    /\ genRunner' = IF GenCompile(gen) = "nil" THEN "fresh" ELSE genRunner
    /\ UNCHANGED <<gen, grVars, flVars, gnVars, brVars, paVars, sgVars, stVars, scVars, fcVars, chVars, twVars, fpVars>>

\* Run on a runner Compile returned; the runner reads the graph it was compiled from
GenDoRun ==
    \E input \in Inputs :
        /\ genRunner # "none"
        /\ LET r == GenRun(gen, input)
           IN  genRet' = [NoRet EXCEPT !.op = "Run", !.input = input, !.trace = r.trace,
                                       !.out = r.out, !.err = r.err]
        /\ UNCHANGED <<gen, genRunner, grVars, flVars, gnVars, brVars, paVars, sgVars, stVars, scVars, fcVars, chVars, twVars, fpVars>>

GenDoRunStream ==
    \E input \in Inputs :
        /\ genRunner # "none"
        /\ LET r == GenRunStream(gen, input)
           IN  genRet' = [NoRet EXCEPT !.op = "RunStream", !.input = input, !.trace = r.trace,
                                       !.items = r.items, !.err = r.err]
        /\ UNCHANGED <<gen, genRunner, grVars, flVars, gnVars, brVars, paVars, sgVars, stVars, scVars, fcVars, chVars, twVars, fpVars>>

GenNext ==
    \/ GenDoAddNode
    \/ GenDoAddEdge
    \/ GenDoAddStart
    \/ GenDoAddEnd
    \/ GenDoCompile
    \/ GenDoRun
    \/ GenDoRunStream

\* the generic graph built with edges that carry no transform
GenNoTransformNext ==
    \/ GenDoAddNode
    \/ GenDoAddEdgeNoTransform
    \/ GenDoAddStart
    \/ GenDoAddEnd
    \/ GenDoCompile
    \/ GenDoRun
    \/ GenDoRunStream


(***************************************************************************)
(* graph.Graph: the chaining builder with an accumulated error.            *)
(* "" is Go's empty string: no entry point, no finish point, no error.     *)
(***************************************************************************)
\* the options AddEdge is called with: none, or WithEdgeCondition
EdgeConds == {"nil", "cond"}

GrNewGraph == [nodes |-> EmptyMap, edges |-> EmptyMap, entryPoint |-> "",
               finishPoint |-> "", err |-> ""]

GrEdgesOf(g, from) == IF from \in DOMAIN g.edges THEN g.edges[from] ELSE <<>>

GrAddNode(g, name, handler) ==
    IF g.err # "" THEN g
    ELSE IF name \in DOMAIN g.nodes THEN [g EXCEPT !.err = "node already exists"]
    ELSE [g EXCEPT !.nodes = MapPut(g.nodes, name, handler)]

\* AddEdge as it would be if it validated its target at once
GrAddEdgeEager(g, from, to, cond) ==
    IF g.err # "" THEN g
    ELSE IF to \notin DOMAIN g.nodes THEN [g EXCEPT !.err = "edge to unknown node"]
    ELSE IF \E i \in 1..Len(GrEdgesOf(g, from)) : GrEdgesOf(g, from)[i].to = to
    THEN [g EXCEPT !.err = "edge already exists"]
    ELSE [g EXCEPT !.edges = MapPut(g.edges, from,
                                    Append(GrEdgesOf(g, from), [to |-> to, condition |-> cond]))]

GrAddEdge(g, from, to, cond) ==
    IF g.err # "" THEN g
    ELSE IF \E i \in 1..Len(GrEdgesOf(g, from)) : GrEdgesOf(g, from)[i].to = to
    THEN [g EXCEPT !.err = "edge already exists"]
    ELSE [g EXCEPT !.edges = MapPut(g.edges, from,
                                    Append(GrEdgesOf(g, from), [to |-> to, condition |-> cond]))]

\* SetEntryPoint as it would be without the test of the recorded error
GrSetEntryPointUnguarded(g, start) ==
    IF g.entryPoint # "" THEN [g EXCEPT !.err = "entry point already set"]
    ELSE [g EXCEPT !.entryPoint = start]

GrSetEntryPoint(g, start) ==
    IF g.err # "" THEN g
    ELSE IF g.entryPoint # "" THEN [g EXCEPT !.err = "entry point already set"]
    ELSE [g EXCEPT !.entryPoint = start]

GrSetFinishPoint(g, end) ==
    IF g.err # "" THEN g
    ELSE IF g.finishPoint # "" THEN [g EXCEPT !.err = "finish point already set"]
    ELSE [g EXCEPT !.finishPoint = end]

\* validate: "" when the configuration is accepted, otherwise the error
GrValidate(g) ==
    IF g.err # "" THEN g.err
    ELSE IF g.entryPoint = "" THEN "entry point not set"
    ELSE IF g.finishPoint = "" THEN "finish point not set"
    ELSE IF g.entryPoint \notin DOMAIN g.nodes THEN "start node not found"
    ELSE IF g.finishPoint \notin DOMAIN g.nodes THEN "end node not found"
    ELSE IF \E from \in DOMAIN g.edges : from \notin DOMAIN g.nodes
    THEN "edge from unknown node"
    ELSE IF \E from \in DOMAIN g.edges : \E i \in 1..Len(g.edges[from]) :
                g.edges[from][i].to \notin DOMAIN g.nodes
    THEN "edge to unknown node"
    ELSE ""

\* the breadth-first loop of ensureReachable over its queue and visited set
RECURSIVE GrSearch(_, _, _)
GrSearch(g, queue, visited) ==
    IF queue = <<>> THEN "finish node not reachable"
    ELSE LET node == Head(queue)
         IN  IF node \in visited THEN GrSearch(g, Tail(queue), visited)
             ELSE IF node = g.finishPoint THEN ""
             ELSE GrSearch(g,
                           Tail(queue) \o [i \in 1..Len(GrEdgesOf(g, node)) |->
                                              GrEdgesOf(g, node)[i].to],
                           visited \cup {node})

\* ensureReachable as it would be if it enqueued the targets of every edge of the
\* graph instead of the edges of the dequeued node
GrEnsureReachableAnyEdge(g) ==
    IF g.entryPoint = g.finishPoint THEN ""
    ELSE IF \E from \in DOMAIN g.edges : \E i \in 1..Len(g.edges[from]) :
                g.edges[from][i].to = g.finishPoint
    THEN ""
    ELSE "finish node not reachable"

GrEnsureReachable(g) ==
    IF g.entryPoint = g.finishPoint THEN ""
    ELSE GrSearch(g, <<g.entryPoint>>, {})

\* Compile: "" when an Executor is returned, otherwise the error
GrCompile(g) ==
    IF GrValidate(g) # "" THEN GrValidate(g)
    ELSE GrEnsureReachable(g)

\* the handlers AddNode is called with
GrHandlers == {"h1"}

\* one builder call, as the tuple <<method, argument, argument, argument>>
GrApply(g, c) ==
    CASE c[1] = "AddNode" -> GrAddNode(g, c[2], c[3])
      [] c[1] = "AddEdge" -> GrAddEdge(g, c[2], c[3], c[4])
      [] c[1] = "SetEntryPoint" -> GrSetEntryPoint(g, c[2])
      [] OTHER -> GrSetFinishPoint(g, c[2])

\* grCalls: the builder calls made so far, each with the number of times it was made
GrCount(calls) ==
    LET RECURSIVE Sum(_)
        Sum(S) == IF S = {} THEN 0
                  ELSE LET x == CHOOSE y \in S : TRUE IN calls[x] + Sum(S \ {x})
    IN  Sum(DOMAIN calls)

GrNote(calls, c) == MapPut(calls, c, IF c \in DOMAIN calls THEN calls[c] + 1 ELSE 1)

GrNoRet == [op |-> "none", err |-> ""]

GrInit ==
    /\ gr = GrNewGraph
    /\ grCalls = EmptyMap
    /\ grRet = GrNoRet

GrEdgeCount(g) ==
    LET RECURSIVE Sum(_)
        Sum(S) == IF S = {} THEN 0
                  ELSE LET x == CHOOSE y \in S : TRUE IN Len(g.edges[x]) + Sum(S \ {x})
    IN  Sum(DOMAIN g.edges)

\* a builder call returns the graph itself for chaining
GrCall(c) ==
    /\ gr' = GrApply(gr, c)
    /\ grRet' = GrNoRet

GrDoAddNode ==
    \E name \in Names, h \in GrHandlers :
        /\ GrCall(<<"AddNode", name, h, "">>)
        /\ UNCHANGED <<grCalls, genVars, flVars, gnVars, brVars, paVars, sgVars, stVars, scVars, fcVars, chVars, twVars, fpVars>>

GrDoAddEdge ==
    \E from \in Names, to \in Names, cond \in EdgeConds :
        /\ GrEdgeCount(gr) < MaxEdges
        /\ GrCall(<<"AddEdge", from, to, cond>>)
        /\ UNCHANGED <<grCalls, genVars, flVars, gnVars, brVars, paVars, sgVars, stVars, scVars, fcVars, chVars, twVars, fpVars>>

GrDoSetEntryPoint ==
    \E start \in Names :
        /\ GrCall(<<"SetEntryPoint", start, "", "">>)
        /\ UNCHANGED <<grCalls, genVars, flVars, gnVars, brVars, paVars, sgVars, stVars, scVars, fcVars, chVars, twVars, fpVars>>

GrDoSetFinishPoint ==
    \E end \in Names :
        /\ GrCall(<<"SetFinishPoint", end, "", "">>)
        /\ UNCHANGED <<grCalls, genVars, flVars, gnVars, brVars, paVars, sgVars, stVars, scVars, fcVars, chVars, twVars, fpVars>>

GrDoCompile ==
    /\ grRet' = [op |-> "Compile", err |-> GrCompile(gr)]
    /\ UNCHANGED <<gr, grCalls, genVars, flVars, gnVars, brVars, paVars, sgVars, stVars, scVars, fcVars, chVars, twVars, fpVars>>

GrNext ==
    \/ GrDoAddNode
    \/ GrDoAddEdge
    \/ GrDoSetEntryPoint
    \/ GrDoSetFinishPoint
    \/ GrDoCompile

(***************************************************************************)
(* The same builder with its calls logged: any MaxCalls calls, in any      *)
(* order, over two node names.                                             *)
(***************************************************************************)
LogNames == {"A", "B"}

GrLogged(c) ==
    /\ GrCount(grCalls) < MaxCalls
    /\ GrCall(c)
    /\ grCalls' = GrNote(grCalls, c)

GrLogAddNode ==
    \E name \in LogNames, h \in GrHandlers :
        /\ GrLogged(<<"AddNode", name, h, "">>)
        /\ UNCHANGED <<genVars, flVars, gnVars, brVars, paVars, sgVars, stVars, scVars, fcVars, chVars, twVars, fpVars>>

GrLogAddEdge ==
    \E from \in LogNames, to \in LogNames, cond \in EdgeConds :
        /\ GrLogged(<<"AddEdge", from, to, cond>>)
        /\ UNCHANGED <<genVars, flVars, gnVars, brVars, paVars, sgVars, stVars, scVars, fcVars, chVars, twVars, fpVars>>

GrLogSetEntryPoint ==
    \E start \in LogNames :
        /\ GrLogged(<<"SetEntryPoint", start, "", "">>)
        /\ UNCHANGED <<genVars, flVars, gnVars, brVars, paVars, sgVars, stVars, scVars, fcVars, chVars, twVars, fpVars>>

GrLogSetFinishPoint ==
    \E end \in LogNames :
        /\ GrLogged(<<"SetFinishPoint", end, "", "">>)
        /\ UNCHANGED <<genVars, flVars, gnVars, brVars, paVars, sgVars, stVars, scVars, fcVars, chVars, twVars, fpVars>>

GrLogNext ==
    \/ GrLogAddNode
    \/ GrLogAddEdge
    \/ GrLogSetEntryPoint
    \/ GrLogSetFinishPoint
    \/ GrDoCompile

(***************************************************************************)
(* flow.Graph keyed by runner, with Compile: nodes is the set of registered *)
(* runners, edges the default next runner, branches the runtime choice.    *)
(* A runner is named by the node it is; "" is the nil runner.               *)
(***************************************************************************)
\* the branch functions AddBranch is called with: one returns the label "left", one
\* the label "right", one fails
BranchFns == {"left", "right", "fail"}

\* the label maps AddBranch is called with
BranchMaps == {[l \in {"left"} |-> n] : n \in Names}

FlNewGraph == [nodes |-> {}, edges |-> EmptyMap, branches |-> EmptyMap, start |-> ""]

FlAddNode(g, r) == [g EXCEPT !.nodes = g.nodes \cup {r}]

FlAddEdge(g, from, to) == [g EXCEPT !.edges = MapPut(g.edges, from, to)]

FlAddEdgeStart(g, to) == [g EXCEPT !.start = to]

FlAddEdgeEnd(g, from) ==
    [g EXCEPT !.edges = [x \in (DOMAIN g.edges) \ {from} |-> g.edges[x]]]

FlAddBranch(g, from, branch, nodes) ==
    [g EXCEPT !.branches = MapPut(g.branches, from, [branch |-> branch, nodes |-> nodes])]

\* the depth-first search as it would be if a runner were marked done on entry
RECURSIVE FlDfsMarkDone(_, _, _)
FlDfsMarkDone(g, n, visiting) ==
    IF n = "" THEN [err |-> "nil", visiting |-> visiting]
    ELSE IF n \in DOMAIN visiting /\ visiting[n] = 1
    THEN [err |-> "cycle detected in default edges", visiting |-> visiting]
    ELSE IF n \in DOMAIN visiting /\ visiting[n] = 2
    THEN [err |-> "nil", visiting |-> visiting]
    ELSE LET marked == MapPut(visiting, n, 2)
         IN  IF n \in DOMAIN g.edges
             THEN FlDfsMarkDone(g, g.edges[n], marked)
             ELSE [err |-> "nil", visiting |-> marked]

\* the depth-first search of Compile: visiting maps a runner to 1 (visiting) or
\* 2 (done); the result is the error and the marks left behind
RECURSIVE FlDfs(_, _, _)
FlDfs(g, n, visiting) ==
    IF n = "" THEN [err |-> "nil", visiting |-> visiting]
    ELSE IF n \in DOMAIN visiting /\ visiting[n] = 1
    THEN [err |-> "cycle detected in default edges", visiting |-> visiting]
    ELSE IF n \in DOMAIN visiting /\ visiting[n] = 2
    THEN [err |-> "nil", visiting |-> visiting]
    ELSE LET marked == MapPut(visiting, n, 1)
             sub == IF n \in DOMAIN g.edges
                    THEN FlDfs(g, g.edges[n], marked)
                    ELSE [err |-> "nil", visiting |-> marked]
         IN  IF sub.err # "nil" THEN sub
             ELSE [err |-> "nil", visiting |-> MapPut(sub.visiting, n, 2)]

\* the edge loop as it would be without the check of the edge's target
FlEdgeErrorsSourceOnly(g) ==
    {"edge from node not registered" : from \in {x \in DOMAIN g.edges : x \notin g.nodes}}

\* the errors the loop over the edge map can return; Go ranges over a map in an
\* unspecified order, so any offending entry may be the one reported
FlEdgeErrors(g) ==
    {"edge from node not registered" : from \in {x \in DOMAIN g.edges : x \notin g.nodes}} \cup
    {"edge to node not registered" :
        from \in {x \in DOMAIN g.edges : x \in g.nodes /\ g.edges[x] # ""
                                          /\ g.edges[x] \notin g.nodes}}

FlBranchErrors(g) ==
    {"branch from node not registered" :
        from \in {x \in DOMAIN g.branches : x \notin g.nodes}} \cup
    {"branch target node not registered" :
        from \in {x \in DOMAIN g.branches :
                     /\ x \in g.nodes
                     /\ \E l \in DOMAIN g.branches[x].nodes :
                            g.branches[x].nodes[l] \notin g.nodes}}

\* Compile: the results it can return, "nil" when it returns a runner
FlCompile(g) ==
    IF g.start = "" THEN {"start node not defined"}
    ELSE IF g.start \notin g.nodes THEN {"start node not registered"}
    ELSE IF FlEdgeErrors(g) # {} THEN FlEdgeErrors(g)
    ELSE IF FlBranchErrors(g) # {} THEN FlBranchErrors(g)
    ELSE {FlDfs(g, g.start, EmptyMap).err}

\* next as it would be if the default edge were looked up before the branch
FlNextNodeEdgeFirst(g, from) ==
    IF from \in DOMAIN g.edges THEN [next |-> g.edges[from], err |-> "nil"]
    ELSE IF from \in DOMAIN g.branches
    THEN LET b == g.branches[from]
         IN  IF b.branch = "fail" THEN [next |-> "", err |-> "branch eval failed"]
             ELSE IF b.branch \notin DOMAIN b.nodes
             THEN [next |-> "", err |-> "branch target not found"]
             ELSE [next |-> b.nodes[b.branch], err |-> "nil"]
    ELSE [next |-> "", err |-> "nil"]

\* next: the runner after 'from' ("" when the run ends there) and the error
FlNextNode(g, from) ==
    IF from \in DOMAIN g.branches
    THEN LET b == g.branches[from]
         IN  IF b.branch = "fail" THEN [next |-> "", err |-> "branch eval failed"]
             ELSE IF b.branch \notin DOMAIN b.nodes
             THEN [next |-> "", err |-> "branch target not found"]
             ELSE [next |-> b.nodes[b.branch], err |-> "nil"]
    ELSE IF from \in DOMAIN g.edges THEN [next |-> g.edges[from], err |-> "nil"]
    ELSE [next |-> "", err |-> "nil"]

FlNoRunner == [start |-> "", graph |-> "none"]

FlIdle == [pc |-> "idle", op |-> "none", current |-> "", prompt |-> 0, trace |-> <<>>,
           last |-> 0, items |-> <<>>, err |-> "nil"]

FlInit ==
    /\ fl = FlNewGraph
    /\ flRunner = FlNoRunner
    /\ flRun = FlIdle

\* flRunner.graph: "none" while Compile has returned no runner; the runner points to
\* the builder, "fresh" while the builder is as it was compiled, "stale" afterwards
FlTouched(r) == IF r.graph = "none" THEN r ELSE [r EXCEPT !.graph = "stale"]

FlBuild(g) ==
    /\ flRun.pc # "running"
    /\ fl' = g
    /\ flRunner' = FlTouched(flRunner)
    /\ flRun' = FlIdle

FlDoAddNode ==
    \E r \in Names :
        /\ FlBuild(FlAddNode(fl, r))
        /\ UNCHANGED <<genVars, grVars, gnVars, brVars, paVars, sgVars, stVars, scVars, fcVars, chVars, twVars, fpVars>>

FlDoAddEdge ==
    \E from \in Names, to \in Names :
        /\ from \in DOMAIN fl.edges \/ Cardinality(DOMAIN fl.edges) < MaxEdges
        /\ FlBuild(FlAddEdge(fl, from, to))
        /\ UNCHANGED <<genVars, grVars, gnVars, brVars, paVars, sgVars, stVars, scVars, fcVars, chVars, twVars, fpVars>>

FlDoAddEdgeStart ==
    \E to \in Names :
        /\ FlBuild(FlAddEdgeStart(fl, to))
        /\ UNCHANGED <<genVars, grVars, gnVars, brVars, paVars, sgVars, stVars, scVars, fcVars, chVars, twVars, fpVars>>

FlDoAddEdgeEnd ==
    \E from \in Names :
        /\ FlBuild(FlAddEdgeEnd(fl, from))
        /\ UNCHANGED <<genVars, grVars, gnVars, brVars, paVars, sgVars, stVars, scVars, fcVars, chVars, twVars, fpVars>>

FlDoAddBranch ==
    \E from \in Names, branch \in BranchFns, nodes \in BranchMaps :
        /\ from \in DOMAIN fl.branches \/ Cardinality(DOMAIN fl.branches) < MaxBranches
        /\ FlBuild(FlAddBranch(fl, from, branch, nodes))
        /\ UNCHANGED <<genVars, grVars, gnVars, brVars, paVars, sgVars, stVars, scVars, fcVars, chVars, twVars, fpVars>>

FlDoCompile ==
    \E err \in FlCompile(fl) :
        /\ flRun.pc # "running"
        /\ flRun' = [FlIdle EXCEPT !.op = "Compile", !.err = err]
        /\ flRunner' = IF err = "nil" THEN [start |-> fl.start, graph |-> "fresh"]
                       ELSE flRunner
        /\ UNCHANGED <<fl, genVars, grVars, gnVars, brVars, paVars, sgVars, stVars, scVars, fcVars, chVars, twVars, fpVars>>

\* Run enters its loop with current = the runner's start node
FlDoRun ==
    \E prompt \in Inputs :
        /\ flRunner.graph # "none"
        /\ flRun.pc # "running"
        /\ flRun' = [FlIdle EXCEPT !.pc = "running", !.op = "Run",
                                   !.current = flRunner.start, !.prompt = prompt]
        /\ UNCHANGED <<fl, flRunner, genVars, grVars, gnVars, brVars, paVars, sgVars, stVars, scVars, fcVars, chVars, twVars, fpVars>>

\* the loop of Run as it would be if it noted a node's error and went on
FlRunStepGoOn(g, run, ok) ==
    LET out == RunNode(Delta[run.current], run.prompt)
        nx == FlNextNode(g, run.current)
        called == [run EXCEPT !.trace = Append(run.trace, run.current),
                              !.err = IF ok THEN run.err ELSE "node failed"]
        ran == [called EXCEPT !.last = out, !.prompt = out]
    IN  IF nx.err # "nil"
        THEN [ran EXCEPT !.pc = "done", !.err = nx.err, !.last = 0]
        ELSE IF nx.next = ""
        THEN [ran EXCEPT !.pc = "done", !.current = ""]
        ELSE [ran EXCEPT !.current = nx.next]

\* one iteration of Run's loop: run the current node, which succeeds (ok) or returns
\* an error, then ask next
FlRunStep(g, run, ok) ==
    LET out == RunNode(Delta[run.current], run.prompt)
        nx == FlNextNode(g, run.current)
        called == [run EXCEPT !.trace = Append(run.trace, run.current)]
        ran == [called EXCEPT !.last = out, !.prompt = out]
    IN  IF ~ok
        THEN [called EXCEPT !.pc = "done", !.err = "node failed", !.last = 0]
        ELSE IF nx.err # "nil"
        THEN [ran EXCEPT !.pc = "done", !.err = nx.err, !.last = 0]
        ELSE IF nx.next = ""
        THEN [ran EXCEPT !.pc = "done", !.current = ""]
        ELSE [ran EXCEPT !.current = nx.next]

FlDoRunStep ==
    \E ok \in BOOLEAN :
        /\ flRun.pc = "running"
        /\ flRun.op = "Run"
        /\ Len(flRun.trace) < MaxSteps
        /\ flRun' = FlRunStep(fl, flRun, ok)
        /\ UNCHANGED <<fl, flRunner, genVars, grVars, gnVars, brVars, paVars, sgVars, stVars, scVars, fcVars, chVars, twVars, fpVars>>

\* what the stream of a node's RunStream does: RunStream or an item fails, the
\* stream ends without an item, or it yields one item and ends
FlStreams == {"fail", "empty", "item"}

\* RunStream returns the pipe; its producer starts with current = the start node
FlDoRunStream ==
    \E prompt \in Inputs :
        /\ flRunner.graph # "none"
        /\ flRun.pc # "running"
        /\ flRun' = [FlIdle EXCEPT !.pc = "running", !.op = "RunStream",
                                   !.current = flRunner.start, !.prompt = prompt]
        /\ UNCHANGED <<fl, flRunner, genVars, grVars, gnVars, brVars, paVars, sgVars, stVars, scVars, fcVars, chVars, twVars, fpVars>>

\* one iteration of the producer's loop: the items of the current node's stream are
\* sent on and the last one kept; 'last.Messages' is then read whether or not there
\* was an item, and with no item last is nil
FlStreamStep(g, run, res) ==
    LET out == RunNode(Delta[run.current], run.prompt)
        nx == FlNextNode(g, run.current)
        called == [run EXCEPT !.trace = Append(run.trace, run.current)]
        sent == [called EXCEPT !.items = Append(run.items, out), !.last = out, !.prompt = out]
    IN  IF res = "fail"
        THEN [called EXCEPT !.pc = "done", !.err = "node failed"]
        ELSE IF res = "empty"
        THEN [called EXCEPT !.pc = "done", !.err = "panic: nil pointer dereference"]
        ELSE IF nx.err # "nil"
        THEN [sent EXCEPT !.pc = "done", !.err = nx.err]
        ELSE IF nx.next = ""
        THEN [sent EXCEPT !.pc = "done", !.current = ""]
        ELSE [sent EXCEPT !.current = nx.next]

FlDoStreamStep ==
    \E res \in FlStreams :
        /\ flRun.pc = "running"
        /\ flRun.op = "RunStream"
        /\ Len(flRun.trace) < MaxSteps
        /\ flRun' = FlStreamStep(fl, flRun, res)
        /\ UNCHANGED <<fl, flRunner, genVars, grVars, gnVars, brVars, paVars, sgVars, stVars, scVars, fcVars, chVars, twVars, fpVars>>

\* the runner-keyed graph with RunStream in place of Run
FlStreamNext ==
    \/ FlDoAddNode
    \/ FlDoAddEdge
    \/ FlDoAddEdgeStart
    \/ FlDoAddEdgeEnd
    \/ FlDoAddBranch
    \/ FlDoCompile
    \/ FlDoRunStream
    \/ FlDoStreamStep

FlNext ==
    \/ FlDoAddNode
    \/ FlDoAddEdge
    \/ FlDoAddEdgeStart
    \/ FlDoAddEdgeEnd
    \/ FlDoAddBranch
    \/ FlDoCompile
    \/ FlDoRun
    \/ FlDoRunStep

(***************************************************************************)
(* flow.GraphNode: nodes linked by To, each a single runner, a loop or a    *)
(* branch; a Graph runs its head node with a new GraphState.  gn is the     *)
(* list of linked nodes, head first.                                        *)
(***************************************************************************)
\* the loop conditions NewLoop is called with; a condition reads the GraphState in
\* the context: "always" is true, "never" is false, "fresh" is true while the
\* history is empty
LoopConds == {"always", "never", "fresh"}

\* maxIterations as NewLoop sets it
DefaultMaxIterations == 2

\* the values WithMaxIterations is called with
MaxIterationOpts == {0, 1, 3}

GnNewNode(runner) ==
    [kind |-> "node", runner |-> runner, condition |-> "", maxIterations |-> 0,
     selector |-> "", branch |-> EmptyMap]

GnNewLoop(condition, runner, max) ==
    [kind |-> "loop", runner |-> runner, condition |-> condition, maxIterations |-> max,
     selector |-> "", branch |-> EmptyMap]

GnNewBranch(selector, branch) ==
    [kind |-> "branch", runner |-> "", condition |-> "", maxIterations |-> 0,
     selector |-> selector, branch |-> branch]

GnCondition(c, history) ==
    CASE c = "always" -> TRUE
      [] c = "never" -> FALSE
      [] OTHER -> history = 0

GnIdle == [pc |-> "idle", op |-> "none", input |-> 0, idx |-> 0, iterations |-> 0,
           prompt |-> 0, history |-> 0, trace |-> <<>>, items |-> <<>>, last |-> <<>>,
           err |-> "nil"]

GnNoSaved == [valid |-> FALSE, input |-> 0, trace |-> <<>>]

GnInit ==
    /\ gn = <<>>
    /\ gnRun = GnIdle
    /\ gnSaved = GnNoSaved

\* NewNode, NewLoop or NewBranch linked behind the last node by To
GnLink(node) ==
    /\ gnRun.pc # "running"
    /\ Len(gn) < MaxChain
    /\ gn' = Append(gn, node)
    /\ gnRun' = GnIdle
    /\ gnSaved' = GnNoSaved

GnDoNewNode ==
    \E runner \in Names :
        /\ GnLink(GnNewNode(runner))
        /\ UNCHANGED <<genVars, grVars, flVars, brVars, paVars, sgVars, stVars, scVars, fcVars, chVars, twVars, fpVars>>

GnDoNewLoop ==
    \E condition \in LoopConds, runner \in Names,
       max \in {DefaultMaxIterations} \cup MaxIterationOpts :
        /\ GnLink(GnNewLoop(condition, runner, max))
        /\ UNCHANGED <<genVars, grVars, flVars, brVars, paVars, sgVars, stVars, scVars, fcVars, chVars, twVars, fpVars>>

GnDoNewBranch ==
    \E selector \in {"left", "right"}, branch \in BranchMaps :
        /\ GnLink(GnNewBranch(selector, branch))
        /\ UNCHANGED <<genVars, grVars, flVars, brVars, paVars, sgVars, stVars, scVars, fcVars, chVars, twVars, fpVars>>

\* Graph.Run / Graph.RunStream: a new GraphState, then the head node
GnBegin(op, input) ==
    /\ gn # <<>>
    /\ gnRun.pc # "running"
    /\ gnRun' = [GnIdle EXCEPT !.pc = "running", !.op = op, !.input = input, !.idx = 1,
                               !.prompt = input]

GnDoRun ==
    \E input \in Inputs :
        /\ GnBegin("Run", input)
        /\ UNCHANGED <<gn, gnSaved, genVars, grVars, flVars, brVars, paVars, sgVars, stVars, scVars, fcVars, chVars, twVars, fpVars>>

GnDoRunStream ==
    \E input \in Inputs :
        /\ GnBegin("RunStream", input)
        /\ UNCHANGED <<gn, gnSaved, genVars, grVars, flVars, brVars, paVars, sgVars, stVars, scVars, fcVars, chVars, twVars, fpVars>>

\* the current node has run runner r: the output becomes the prompt, joins the
\* history and, in RunStream, is sent to the pipe
GnRan(run, r) ==
    LET out == RunNode(Delta[r], run.prompt)
    IN  [run EXCEPT !.trace = Append(run.trace, r), !.last = <<out>>, !.prompt = out,
                    !.history = run.history + 1,
                    !.items = IF run.op = "RunStream" THEN Append(run.items, out)
                              ELSE run.items]

\* the current node is finished: go on with the next node, or return
GnLeave(run) ==
    IF run.idx < Len(gn)
    THEN [run EXCEPT !.idx = run.idx + 1, !.iterations = 0, !.last = <<>>]
    ELSE [run EXCEPT !.pc = "done"]

\* a node returns an error: Run returns it, RunStream returns it and no stream
GnFail(run, err) == [run EXCEPT !.pc = "done", !.err = err, !.last = <<>>, !.items = <<>>]

\* gnSaved keeps the node sequence of the last completed Run on this chain
GnSave(run) ==
    IF run.pc = "done" /\ run.op = "Run"
    THEN [valid |-> TRUE, input |-> run.input, trace |-> run.trace]
    ELSE gnSaved

GnStepping ==
    /\ gnRun.pc = "running"
    /\ Len(gnRun.trace) < MaxSteps

GnStepNode ==
    /\ GnStepping
    /\ gn[gnRun.idx].kind = "node"
    /\ gnRun' = GnLeave(GnRan(gnRun, gn[gnRun.idx].runner))
    /\ gnSaved' = GnSave(gnRun')
    /\ UNCHANGED <<gn, genVars, grVars, flVars, brVars, paVars, sgVars, stVars, scVars, fcVars, chVars, twVars, fpVars>>

\* the loop case as it would be if Run compared with > instead of >=
GnLoopPassOneMore(run, n) ==
    LET counted == [run EXCEPT !.iterations = run.iterations + 1]
    IN  IF run.op = "Run"
        THEN IF run.iterations > n.maxIterations THEN GnLeave(run)
             ELSE IF ~GnCondition(n.condition, run.history) THEN GnLeave(counted)
             ELSE GnRan(counted, n.runner)
        ELSE IF ~GnCondition(n.condition, run.history) THEN GnLeave(run)
             ELSE GnRan(run, n.runner)

\* one pass of the loop case: Run counts its iterations against maxIterations,
\* RunStream only asks the condition
GnLoopPass(run, n) ==
    LET counted == [run EXCEPT !.iterations = run.iterations + 1]
    IN  IF run.op = "Run"
        THEN IF run.iterations >= n.maxIterations THEN GnLeave(run)
             ELSE IF ~GnCondition(n.condition, run.history) THEN GnLeave(counted)
             ELSE GnRan(counted, n.runner)
        ELSE IF ~GnCondition(n.condition, run.history) THEN GnLeave(run)
             ELSE GnRan(run, n.runner)

GnStepLoop ==
    /\ GnStepping
    /\ gn[gnRun.idx].kind = "loop"
    /\ gnRun' = GnLoopPass(gnRun, gn[gnRun.idx])
    /\ gnSaved' = GnSave(gnRun')
    /\ UNCHANGED <<gn, genVars, grVars, flVars, brVars, paVars, sgVars, stVars, scVars, fcVars, chVars, twVars, fpVars>>

GnStepBranch ==
    /\ GnStepping
    /\ gn[gnRun.idx].kind = "branch"
    /\ LET n == gn[gnRun.idx]
       IN  gnRun' = IF n.selector \notin DOMAIN n.branch
                    THEN GnFail(gnRun, "invalid branch choice")
                    ELSE GnLeave(GnRan(gnRun, n.branch[n.selector]))
    /\ gnSaved' = GnSave(gnRun')
    /\ UNCHANGED <<gn, genVars, grVars, flVars, brVars, paVars, sgVars, stVars, scVars, fcVars, chVars, twVars, fpVars>>

GnNext ==
    \/ GnDoNewNode
    \/ GnDoNewLoop
    \/ GnDoNewBranch
    \/ GnDoRun
    \/ GnDoRunStream
    \/ GnStepNode
    \/ GnStepLoop
    \/ GnStepBranch

(***************************************************************************)
(* flow.Branch[I,O,Option]: a selector and a map of named runners.          *)
(***************************************************************************)
\* the runners NewBranch is called with: a name, what Run adds to its input, and
\* whether Run succeeds
BrRunners ==
    UNION {{[name |-> n, delta |-> d, ok |-> TRUE] : d \in RunnersFor(n)} : n \in Names} \cup
    {[name |-> n, delta |-> 0, ok |-> FALSE] : n \in Names}

\* the selectors NewBranch is called with: a fixed label, a label read from the
\* input, or a failure
BrSelectors == {"toA", "toB", "toC", "byInput", "fail"}

BrSelect(selector, input) ==
    CASE selector = "toA" -> [label |-> "A", err |-> "nil"]
      [] selector = "toB" -> [label |-> "B", err |-> "nil"]
      [] selector = "toC" -> [label |-> "C", err |-> "nil"]
      [] selector = "byInput" -> [label |-> IF input = 1 THEN "A" ELSE "B", err |-> "nil"]
      [] OTHER -> [label |-> "", err |-> "selector failed"]

\* NewBranch: the map is filled in argument order, keyed by runner.Name()
RECURSIVE BrRunnerMap(_, _)
BrRunnerMap(runners, m) ==
    IF runners = <<>> THEN m
    ELSE BrRunnerMap(Tail(runners), MapPut(m, Head(runners).name, Head(runners)))

BrNewBranch(selector, runners) ==
    [selector |-> selector, runners |-> BrRunnerMap(runners, EmptyMap)]

BrRunRunner(runner, input) ==
    IF runner.ok THEN [out |-> RunNode(runner.delta, input), err |-> "nil"]
    ELSE [out |-> 0, err |-> "runner failed"]

BrNoCalls == [n \in Names |-> 0]

BrNoRet == [op |-> "none", input |-> 0, calls |-> BrNoCalls, out |-> 0, items |-> <<>>,
            err |-> "nil", label |-> ""]

\* Run as it would be if an unknown label fell through to some candidate
BrRunFallThrough(b, input) ==
    LET s == BrSelect(b.selector, input)
    IN  IF s.err # "nil" THEN [BrNoRet EXCEPT !.err = s.err]
        ELSE IF b.runners = EmptyMap
        THEN [BrNoRet EXCEPT !.err = "Branch: runner not found", !.label = s.label]
        ELSE LET l == IF s.label \in DOMAIN b.runners THEN s.label
                      ELSE CHOOSE x \in DOMAIN b.runners : TRUE
                 r == BrRunRunner(b.runners[l], input)
             IN  [BrNoRet EXCEPT !.calls[l] = 1, !.out = r.out, !.err = r.err]

\* Branch.Run: the result and the number of calls made to each candidate
BrRun(b, input) ==
    LET s == BrSelect(b.selector, input)
    IN  IF s.err # "nil" THEN [BrNoRet EXCEPT !.err = s.err]
        ELSE IF s.label \notin DOMAIN b.runners
        THEN [BrNoRet EXCEPT !.err = "Branch: runner not found", !.label = s.label]
        ELSE LET r == BrRunRunner(b.runners[s.label], input)
             IN  [BrNoRet EXCEPT !.calls[s.label] = 1, !.out = r.out, !.err = r.err]

\* the goroutine of Branch.RunStream, ranging over the map c.runners in the order
\* 'order'; the selector is not asked
RECURSIVE BrStreamAll(_, _, _, _)
BrStreamAll(b, order, input, ret) ==
    IF order = <<>> THEN ret
    ELSE LET r == BrRunRunner(b.runners[Head(order)], input)
             called == [ret EXCEPT !.calls[Head(order)] = ret.calls[Head(order)] + 1]
         IN  IF r.err # "nil" THEN [called EXCEPT !.err = r.err]
             ELSE BrStreamAll(b, Tail(order), input,
                              [called EXCEPT !.items = Append(called.items, r.out)])

\* the orders a range over a map with the keys S can take
BrOrders(S) ==
    {o \in [1..Cardinality(S) -> S] : \A i, j \in 1..Cardinality(S) : i # j => o[i] # o[j]}

BrRunStream(b, input) == {BrStreamAll(b, o, input, BrNoRet) : o \in BrOrders(DOMAIN b.runners)}

BrInit ==
    /\ br = BrNewBranch("toA", <<>>)
    /\ brRet = BrNoRet

BrDoNewBranch ==
    \E selector \in BrSelectors, n \in 0..MaxBranchRunners :
        \E runners \in [1..n -> BrRunners] :
            /\ br' = BrNewBranch(selector, runners)
            /\ brRet' = BrNoRet
            /\ UNCHANGED <<genVars, grVars, flVars, gnVars, paVars, sgVars, stVars, scVars, fcVars, chVars, twVars, fpVars>>

BrDoRun ==
    \E input \in Inputs :
        /\ brRet' = [BrRun(br, input) EXCEPT !.op = "Run", !.input = input]
        /\ UNCHANGED <<br, genVars, grVars, flVars, gnVars, paVars, sgVars, stVars, scVars, fcVars, chVars, twVars, fpVars>>

BrDoRunStream ==
    \E input \in Inputs : \E ret \in BrRunStream(br, input) :
        /\ brRet' = [ret EXCEPT !.op = "RunStream", !.input = input]
        /\ UNCHANGED <<br, genVars, grVars, flVars, gnVars, paVars, sgVars, stVars, scVars, fcVars, chVars, twVars, fpVars>>

BrNext ==
    \/ BrDoNewBranch
    \/ BrDoRun
    \/ BrDoRunStream

(***************************************************************************)
(* Parallel[I,O,Option] with a merger (src/graph/graph.go:212-282): Run     *)
(* starts one goroutine per runner in an errgroup, waits for all of them    *)
(* and merges.  The errgroup keeps the first error returned, cancels the    *)
(* derived context on it, and cancels it when Wait returns.                 *)
(***************************************************************************)
\* the runners NewParallel is called with: what Run adds to its input and the error
\* it returns; a runner with ctx = TRUE returns the context's error once the context
\* it was given is canceled
PaRunners ==
    {[delta |-> d, err |-> "nil", ctx |-> c] : d \in {1, 2}, c \in BOOLEAN} \cup
    {[delta |-> 0, err |-> e, ctx |-> FALSE] : e \in {"e1", "e2"}}

\* the mergers NewParallel is called with
PaMergers == {"sum", "fail"}

RECURSIVE PaSum(_)
PaSum(s) == IF s = <<>> THEN 0 ELSE Head(s) + PaSum(Tail(s))

PaMerge(merger, outputs) ==
    IF merger = "sum" THEN [out |-> PaSum(outputs), err |-> "nil"]
    ELSE [out |-> 0, err |-> "merge failed"]

PaNewParallel(merger, runners) == [merger |-> merger, runners |-> runners]

\* make([]O, 0, len(c.runners)): a slice of length 0
PaMakeOutputs(n) == <<>>

PaIdle == [pc |-> "idle", input |-> 0, sib |-> <<>>, res |-> <<>>, outputs |-> <<>>,
           egErr |-> "nil", canceled |-> FALSE, merged |-> 0, mergeArg |-> <<>>,
           mergeCanceled |-> FALSE, out |-> 0, err |-> "nil"]

PaInit ==
    /\ pa = PaNewParallel("sum", <<>>)
    /\ paRun = PaIdle

PaDoNewParallel ==
    \E merger \in PaMergers, n \in 0..MaxSiblings :
        \E runners \in [1..n -> PaRunners] :
            /\ paRun.pc # "running"
            /\ pa' = PaNewParallel(merger, runners)
            /\ paRun' = PaIdle
            /\ UNCHANGED <<genVars, grVars, flVars, gnVars, brVars, sgVars, stVars, scVars, fcVars, chVars, twVars, fpVars>>

\* Run up to eg.Wait: the outputs slice is made and every goroutine is started
PaDoRun ==
    \E input \in Inputs :
        /\ paRun.pc # "running"
        /\ paRun' = [PaIdle EXCEPT !.pc = "running", !.input = input,
                                   !.sib = [i \in 1..Len(pa.runners) |-> "ready"],
                                   !.res = [i \in 1..Len(pa.runners) |-> "nil"],
                                   !.outputs = PaMakeOutputs(Len(pa.runners))]
        /\ UNCHANGED <<pa, genVars, grVars, flVars, gnVars, brVars, sgVars, stVars, scVars, fcVars, chVars, twVars, fpVars>>

\* goroutine idx calls runner.Run with the derived context
PaSiblingCall ==
    \E idx \in 1..Len(pa.runners) :
        /\ paRun.pc = "running"
        /\ paRun.sib[idx] = "ready"
        /\ paRun' = [paRun EXCEPT !.sib[idx] = "called"]
        /\ UNCHANGED <<pa, genVars, grVars, flVars, gnVars, brVars, sgVars, stVars, scVars, fcVars, chVars, twVars, fpVars>>

\* what runner.Run returns to goroutine idx
PaRunnerErr(runner, canceled) ==
    IF runner.err # "nil" THEN runner.err
    ELSE IF runner.ctx /\ canceled THEN "context canceled"
    ELSE "nil"

\* runner.Run returns to goroutine idx: on an error the goroutine returns it to the
\* errgroup, otherwise it stores outputs[idx]; an index beyond the slice's length
\* panics
PaSiblingReturn ==
    \E idx \in 1..Len(pa.runners) :
        /\ paRun.pc = "running"
        /\ paRun.sib[idx] = "called"
        /\ LET runner == pa.runners[idx]
               e == PaRunnerErr(runner, paRun.canceled)
               back == [paRun EXCEPT !.sib[idx] = "returned", !.res[idx] = e]
           IN  paRun' =
                 IF e # "nil"
                 THEN [back EXCEPT !.egErr = IF paRun.egErr = "nil" THEN e ELSE paRun.egErr,
                                   !.canceled = TRUE]
                 ELSE IF idx > Len(paRun.outputs)
                 THEN [back EXCEPT !.pc = "panic", !.err = "index out of range"]
                 ELSE [back EXCEPT !.outputs[idx] = RunNode(runner.delta, paRun.input)]
        /\ UNCHANGED <<pa, genVars, grVars, flVars, gnVars, brVars, sgVars, stVars, scVars, fcVars, chVars, twVars, fpVars>>

\* eg.Wait returns once every goroutine has returned; Run returns its error or calls
\* the merger with the derived context, which Wait has canceled
PaWait ==
    /\ paRun.pc = "running"
    /\ \A idx \in 1..Len(pa.runners) : paRun.sib[idx] = "returned"
    /\ LET m == PaMerge(pa.merger, paRun.outputs)
       IN  paRun' =
             IF paRun.egErr # "nil"
             THEN [paRun EXCEPT !.pc = "done", !.canceled = TRUE, !.err = paRun.egErr]
             ELSE [paRun EXCEPT !.pc = "done", !.canceled = TRUE, !.merged = 1,
                                !.mergeArg = paRun.outputs, !.mergeCanceled = TRUE,
                                !.out = m.out, !.err = m.err]
    /\ UNCHANGED <<pa, genVars, grVars, flVars, gnVars, brVars, sgVars, stVars, scVars, fcVars, chVars, twVars, fpVars>>

PaNext ==
    \/ PaDoNewParallel
    \/ PaDoRun
    \/ PaSiblingCall
    \/ PaSiblingReturn
    \/ PaWait

(***************************************************************************)
(* The sentinel-keyed flow.Graph (src/unnamed/part_016): nodes by name, one *)
(* default edge per node, START and END as edge keys, conditions that       *)
(* override the default edge; it runs without Compile.                      *)
(***************************************************************************)
SgNames == {"A", "B"}

startKey == "START"

endKey == "END"

\* the runners a node is registered with: one that runs, or nil
SgRunners == {"run", "nil"}

\* the conditions AddBranch is called with: the node key each returns, or a failure
SgConds == {"toA", "toB", "toEnd", "fail"}

SgCond(c) ==
    CASE c = "toA" -> [next |-> "A", err |-> "nil"]
      [] c = "toB" -> [next |-> "B", err |-> "nil"]
      [] c = "toEnd" -> [next |-> endKey, err |-> "nil"]
      [] OTHER -> [next |-> "", err |-> "branch failed"]

SgNewGraph == [nodes |-> EmptyMap, edges |-> EmptyMap, conditions |-> EmptyMap]

SgAddStart(g, name, node) ==
    [g EXCEPT !.nodes = MapPut(g.nodes, name, node), !.edges = MapPut(g.edges, startKey, name)]

SgAddNode(g, name, node) == [g EXCEPT !.nodes = MapPut(g.nodes, name, node)]

SgAddEnd(g, name, node) ==
    [g EXCEPT !.nodes = MapPut(g.nodes, name, node), !.edges = MapPut(g.edges, endKey, name)]

SgAddEdge(g, from, to) == [g EXCEPT !.edges = MapPut(g.edges, from, to)]

SgAddBranch(g, from, to) == [g EXCEPT !.conditions = MapPut(g.conditions, from, to)]

\* findStart: the start node, or the error
SgFindStart(g) ==
    IF g.nodes = EmptyMap THEN [start |-> "", err |-> "graph has no nodes"]
    ELSE IF startKey \in DOMAIN g.edges
    THEN IF g.edges[startKey] \notin DOMAIN g.nodes
         THEN [start |-> "", err |-> "start node not found"]
         ELSE [start |-> g.edges[startKey], err |-> "nil"]
    ELSE [start |-> "", err |-> "graph start not defined"]

\* nextNode: the next node key ("" to stop) and the error
SgNextNode(g, current) ==
    IF current \in DOMAIN g.conditions
    THEN LET c == SgCond(g.conditions[current])
         IN  IF c.err # "nil" THEN [next |-> "", err |-> "branch failed"]
             ELSE IF c.next = endKey \/ c.next = "" THEN [next |-> "", err |-> "nil"]
             ELSE [next |-> c.next, err |-> "nil"]
    ELSE IF current \in DOMAIN g.edges
    THEN [next |-> IF g.edges[current] = endKey THEN "" ELSE g.edges[current], err |-> "nil"]
    ELSE [next |-> "", err |-> "nil"]

\* cancelAt: the number of nodes invoked when the caller canceled the context
SgIdle == [pc |-> "idle", op |-> "none", current |-> "", visited |-> {}, trace |-> <<>>,
           items |-> <<>>, err |-> "nil", canceled |-> FALSE, cancelAt |-> 0]

SgFinish(run, err) == [run EXCEPT !.pc = "done", !.err = err, !.current = ""]

\* the loop of Run without the visited check
SgLoopRevisit(g, run, res) ==
    IF g.nodes[run.current] = "nil" THEN SgFinish(run, "node has no runner")
    ELSE LET called == [run EXCEPT !.trace = Append(run.trace, run.current)]
             sent == [called EXCEPT !.items = IF run.op = "RunStream"
                                              THEN Append(run.items, run.current)
                                              ELSE run.items]
             nx == SgNextNode(g, run.current)
         IN  IF res # "ok" THEN SgFinish(called, res)
             ELSE IF nx.err # "nil" THEN SgFinish(sent, nx.err)
             ELSE IF nx.next = "" THEN SgFinish(sent, "nil")
             ELSE IF nx.next \notin DOMAIN g.nodes THEN SgFinish(sent, "next node not found")
             ELSE [sent EXCEPT !.current = nx.next]

\* one pass of the loop of Run / RunStream; res is what the node's runner returns
SgLoop(g, run, res) ==
    IF run.current \in run.visited THEN SgFinish(run, "cycle detected")
    ELSE LET seen == [run EXCEPT !.visited = run.visited \cup {run.current}]
         IN  IF g.nodes[run.current] = "nil" THEN SgFinish(seen, "node has no runner")
             ELSE LET called == [seen EXCEPT !.trace = Append(run.trace, run.current)]
                      sent == [called EXCEPT !.items = IF run.op = "RunStream"
                                                       THEN Append(run.items, run.current)
                                                       ELSE run.items]
                      nx == SgNextNode(g, run.current)
                  IN  IF res # "ok" THEN SgFinish(called, res)
                      ELSE IF nx.err # "nil" THEN SgFinish(sent, nx.err)
                      ELSE IF nx.next = "" THEN SgFinish(sent, "nil")
                      ELSE IF nx.next \notin DOMAIN g.nodes
                      THEN SgFinish(sent, "next node not found")
                      ELSE [sent EXCEPT !.current = nx.next]

SgInit ==
    /\ sg = SgNewGraph
    /\ sgRun = SgIdle

SgBuild(g) ==
    /\ sgRun.pc # "running"
    /\ Cardinality(DOMAIN g.edges) <= MaxSgEdges
    /\ sg' = g
    /\ sgRun' = SgIdle

SgDoAddStart ==
    \E name \in SgNames :
        /\ SgBuild(SgAddStart(sg, name, "run"))
        /\ UNCHANGED <<genVars, grVars, flVars, gnVars, brVars, paVars, stVars, scVars, fcVars, chVars, twVars, fpVars>>

SgDoAddNode ==
    \E name \in SgNames, node \in SgRunners :
        /\ SgBuild(SgAddNode(sg, name, node))
        /\ UNCHANGED <<genVars, grVars, flVars, gnVars, brVars, paVars, stVars, scVars, fcVars, chVars, twVars, fpVars>>

SgDoAddEnd ==
    \E name \in SgNames :
        /\ SgBuild(SgAddEnd(sg, name, "run"))
        /\ UNCHANGED <<genVars, grVars, flVars, gnVars, brVars, paVars, stVars, scVars, fcVars, chVars, twVars, fpVars>>

SgDoAddEdge ==
    \E from \in SgNames, to \in SgNames \cup {endKey} :
        /\ SgBuild(SgAddEdge(sg, from, to))
        /\ UNCHANGED <<genVars, grVars, flVars, gnVars, brVars, paVars, stVars, scVars, fcVars, chVars, twVars, fpVars>>

SgDoAddBranch ==
    \E from \in SgNames, to \in SgConds :
        /\ from \in DOMAIN sg.conditions \/ Cardinality(DOMAIN sg.conditions) < MaxBranches
        /\ SgBuild(SgAddBranch(sg, from, to))
        /\ UNCHANGED <<genVars, grVars, flVars, gnVars, brVars, paVars, stVars, scVars, fcVars, chVars, twVars, fpVars>>

\* Run / RunStream up to the loop: findStart
SgDoRun ==
    \E op \in {"Run", "RunStream"} :
        /\ sgRun.pc # "running"
        /\ LET s == SgFindStart(sg)
           IN  sgRun' = IF s.err # "nil"
                        THEN [SgIdle EXCEPT !.pc = "done", !.op = op, !.err = s.err]
                        ELSE [SgIdle EXCEPT !.pc = "running", !.op = op, !.current = s.start]
        /\ UNCHANGED <<sg, genVars, grVars, flVars, gnVars, brVars, paVars, stVars, scVars, fcVars, chVars, twVars, fpVars>>

\* the caller cancels the context of the run
SgCancel ==
    /\ sgRun.pc = "running"
    /\ ~sgRun.canceled
    /\ sgRun' = [sgRun EXCEPT !.canceled = TRUE, !.cancelAt = Len(sgRun.trace)]
    /\ UNCHANGED <<sg, genVars, grVars, flVars, gnVars, brVars, paVars, stVars, scVars, fcVars, chVars, twVars, fpVars>>

\* the results a node's runner can return: it succeeds, fails, or, when it looks at a
\* canceled context, returns the context's error
SgResults(canceled) == {"ok", "node failed"} \cup (IF canceled THEN {"context canceled"} ELSE {})

SgDoStep ==
    \E res \in SgResults(sgRun.canceled) :
        /\ sgRun.pc = "running"
        /\ sgRun' = SgLoop(sg, sgRun, res)
        /\ UNCHANGED <<sg, genVars, grVars, flVars, gnVars, brVars, paVars, stVars, scVars, fcVars, chVars, twVars, fpVars>>

SgNext ==
    \/ SgDoAddStart
    \/ SgDoAddNode
    \/ SgDoAddEnd
    \/ SgDoAddEdge
    \/ SgDoAddBranch
    \/ SgDoRun
    \/ SgCancel
    \/ SgDoStep

(***************************************************************************)
(* The execution state of the runner-keyed graph (src/flow/state.go,       *)
(* src/flow/graph.go:155-180): graphRunner.Run allocates a GraphState and  *)
(* puts it in the context; the nodes fetch it with FromGraphContext.  The  *)
(* start node is a Parallel (src/flow/parallel.go) whose siblings are      *)
(* GraphNodes (src/flow/graph_node.go:78-95), and the runner is invoked    *)
(* twice, the invocations interleaving freely.  A message is the pair      *)
(* <<invocation, writer>>.                                                 *)
(***************************************************************************)
\* the invocations of the one compiled runner
StInvocations == 1..MaxInvocations

\* the siblings of the fan-out
StSiblings == 1..MaxStateSiblings

\* the writer recorded for the prompt Run is called with
StInput == 0

\* the writer recorded for what the engine appends after the start node
StEngine == MaxStateSiblings + 1

\* NewGraphState reusing the state of the first invocation
StNewGraphStateShared(heap, prompt) ==
    IF heap = <<>>
    THEN [heap |-> <<[Prompt |-> prompt, History |-> <<>>, Metadata |-> <<>>]>>, ptr |-> 1]
    ELSE [heap |-> heap, ptr |-> 1]

\* NewGraphState: a new object on the heap, and the pointer to it
StNewGraphState(heap, prompt) ==
    [heap |-> Append(heap, [Prompt |-> prompt, History |-> <<>>, Metadata |-> <<>>]),
     ptr |-> Len(heap) + 1]

\* NewGraphContext / FromGraphContext: the context of an invocation carries
\* the pointer it was given
StFromGraphContext(inv) == inv.ctx

StIdleInv == [pc |-> "idle", ctx |-> 0, err |-> "nil"]

StIdleTask == [pc |-> "idle", state |-> 0, h |-> <<>>]

StInit ==
    /\ stHeap = <<>>
    /\ stInv = [i \in StInvocations |-> StIdleInv]
    /\ stTask = [i \in StInvocations |-> [t \in StSiblings |-> StIdleTask]]

\* graphRunner.Run up to current.Run: the state is made, and the start node
\* (the fan-out) launches its siblings with eg.Go
StDoRun(i) ==
    /\ stInv[i].pc = "idle"
    /\ LET made == StNewGraphState(stHeap, <<i, StInput>>)
       IN  /\ stHeap' = made.heap
           /\ stInv' = [stInv EXCEPT ![i] = [pc |-> "fanout", ctx |-> made.ptr, err |-> "nil"]]
    /\ stTask' = [stTask EXCEPT ![i] = [t \in StSiblings |-> [StIdleTask EXCEPT !.pc = "start"]]]
    /\ UNCHANGED <<genVars, grVars, flVars, gnVars, brVars, paVars, sgVars, scVars, fcVars, chVars, twVars, fpVars>>

\* GraphNode.Run, lines 83-87: the state is fetched and state.Prompt written
StTaskEnter(i, t) ==
    /\ stTask[i][t].pc = "start"
    /\ LET p == StFromGraphContext(stInv[i])
       IN  /\ stTask' = [stTask EXCEPT ![i][t].pc = "run", ![i][t].state = p]
           /\ stHeap' = [stHeap EXCEPT ![p].Prompt = <<i, StInput>>]
    /\ UNCHANGED <<stInv, genVars, grVars, flVars, gnVars, brVars, paVars, sgVars, scVars, fcVars, chVars, twVars, fpVars>>

\* GraphNode.Run, lines 90-94: the node runs; on success state.Prompt is
\* written, on failure the sibling returns the error
StTaskRun(i, t) ==
    \E ok \in BOOLEAN :
        /\ stTask[i][t].pc = "run"
        /\ IF ok
           THEN /\ stTask' = [stTask EXCEPT ![i][t].pc = "load"]
                /\ stHeap' = [stHeap EXCEPT ![stTask[i][t].state].Prompt = <<i, t>>]
           ELSE /\ stTask' = [stTask EXCEPT ![i][t].pc = "failed"]
                /\ UNCHANGED stHeap
        /\ UNCHANGED <<stInv, genVars, grVars, flVars, gnVars, brVars, paVars, sgVars, scVars, fcVars, chVars, twVars, fpVars>>

\* GraphNode.Run, line 95, first half: state.History is read
StTaskLoad(i, t) ==
    /\ stTask[i][t].pc = "load"
    /\ stTask' = [stTask EXCEPT ![i][t].pc = "store",
                                ![i][t].h = stHeap[stTask[i][t].state].History]
    /\ UNCHANGED <<stHeap, stInv, genVars, grVars, flVars, gnVars, brVars, paVars, sgVars, scVars, fcVars, chVars, twVars, fpVars>>

\* GraphNode.Run, line 95, second half: the appended slice is stored
StTaskStore(i, t) ==
    /\ stTask[i][t].pc = "store"
    /\ stHeap' = [stHeap EXCEPT ![stTask[i][t].state].History = Append(stTask[i][t].h, <<i, t>>)]
    /\ stTask' = [stTask EXCEPT ![i][t].pc = "done"]
    /\ UNCHANGED <<stInv, genVars, grVars, flVars, gnVars, brVars, paVars, sgVars, scVars, fcVars, chVars, twVars, fpVars>>

\* eg.Wait of the fan-out, then graphRunner.Run lines 165-169: an error ends
\* the run, otherwise the engine writes Prompt and appends to History
StWait(i) ==
    /\ stInv[i].pc = "fanout"
    /\ \A t \in StSiblings : stTask[i][t].pc \in {"done", "failed"}
    /\ IF \E t \in StSiblings : stTask[i][t].pc = "failed"
       THEN /\ stInv' = [stInv EXCEPT ![i].pc = "done", ![i].err = "node failed"]
            /\ UNCHANGED stHeap
       ELSE /\ stInv' = [stInv EXCEPT ![i].pc = "done"]
            /\ LET p == stInv[i].ctx
               IN  stHeap' = [stHeap EXCEPT ![p].Prompt = <<i, StEngine>>,
                                            ![p].History = Append(stHeap[p].History, <<i, StEngine>>)]
    /\ UNCHANGED <<stTask, genVars, grVars, flVars, gnVars, brVars, paVars, sgVars, scVars, fcVars, chVars, twVars, fpVars>>

StNext ==
    \/ \E i \in StInvocations : StDoRun(i)
    \/ \E i \in StInvocations, t \in StSiblings : StTaskEnter(i, t)
    \/ \E i \in StInvocations, t \in StSiblings : StTaskRun(i, t)
    \/ \E i \in StInvocations, t \in StSiblings : StTaskLoad(i, t)
    \/ \E i \in StInvocations, t \in StSiblings : StTaskStore(i, t)
    \/ \E i \in StInvocations : StWait(i)

(***************************************************************************)
(* Text.  A Go string is a sequence of bytes holding UTF-8; a rune is one  *)
(* character.  The characters used here are ASCII ones (one byte each) and *)
(* "é" (U+00E9, the two bytes C3 A9); a byte sequence that is not UTF-8    *)
(* decodes to the replacement character U+FFFD (the bytes EF BF BD).       *)
(***************************************************************************)
ReplacementChar == "U+FFFD"

\* utf8.EncodeRune
Utf8Encode(r) ==
    CASE r = "é" -> <<"C3", "A9">>
      [] r = ReplacementChar -> <<"EF", "BF", "BD">>
      [] OTHER -> <<r>>

RECURSIVE EncodeRunes(_)
\* string(runes)
EncodeRunes(rs) == IF rs = <<>> THEN <<>> ELSE Utf8Encode(Head(rs)) \o EncodeRunes(Tail(rs))

RECURSIVE DecodeRunes(_)
\* []rune(s), and the runes 'for _, r := range s' yields
DecodeRunes(bs) ==
    IF bs = <<>> THEN <<>>
    ELSE IF Len(bs) >= 2 /\ bs[1] = "C3" /\ bs[2] = "A9"
         THEN <<"é">> \o DecodeRunes(SubSeq(bs, 3, Len(bs)))
    ELSE IF Len(bs) >= 3 /\ bs[1] = "EF" /\ bs[2] = "BF" /\ bs[3] = "BD"
         THEN <<ReplacementChar>> \o DecodeRunes(SubSeq(bs, 4, Len(bs)))
    ELSE IF Head(bs) \in {"C3", "A9", "EF", "BF", "BD"}
         THEN <<ReplacementChar>> \o DecodeRunes(Tail(bs))
    ELSE <<Head(bs)>> \o DecodeRunes(Tail(bs))

\* unicode.IsSpace
IsSpace(r) == r \in {" ", "\n"}

RECURSIVE TrimLeft(_)
TrimLeft(bs) == IF bs # <<>> /\ IsSpace(Head(bs)) THEN TrimLeft(Tail(bs)) ELSE bs

RECURSIVE TrimRight(_)
TrimRight(bs) ==
    IF bs # <<>> /\ IsSpace(bs[Len(bs)]) THEN TrimRight(SubSeq(bs, 1, Len(bs) - 1)) ELSE bs

\* strings.TrimSpace
TrimSpace(bs) == TrimRight(TrimLeft(bs))

\* the rune sequences of at most n runes over an alphabet
RunesUpTo(alphabet, n) == UNION {[1..k -> alphabet] : k \in 0..n}

(***************************************************************************)
(* SentenceChunker of the RAG example (src/examples/rag/components.go).    *)
(***************************************************************************)
\* the characters of the texts Split is called with
ScAlphabet == {"a", ".", " ", "\n", "é"}

\* the texts Split is called with
ScTexts == {EncodeRunes(rs) : rs \in RunesUpTo(ScAlphabet, MaxTextLen)}

\* the maxChars arguments of NewSentenceChunker
ScMaxCharsArgs == {0, 1, 3}

\* maxChars when the argument is not positive
ScDefaultMaxChars == 200

NewSentenceChunker(maxChars) ==
    [maxChars |-> IF maxChars <= 0 THEN ScDefaultMaxChars ELSE maxChars]

isSentenceBoundary(r) == r \in {".", "!", "?", ";"}

runeLength(r) == IF Len(Utf8Encode(r)) = 1 THEN 1 ELSE 2

\* the closure flush of Split; buf.Len() is the number of bytes
ScFlush(c, s, force) ==
    IF Len(s.buf) = 0 THEN s
    ELSE IF force \/ Len(s.buf) >= c.maxChars
         THEN [chunks |-> Append(s.chunks, TrimSpace(s.buf)), buf |-> <<>>, count |-> 0]
    ELSE s

\* one pass of the loop over the runes of the text
ScLoopBody(c, s, r) ==
    LET wrote == [s EXCEPT !.buf = s.buf \o Utf8Encode(r)]
        counted == [wrote EXCEPT !.count = wrote.count + runeLength(r)]
    IN  IF r = "\n" THEN ScFlush(c, wrote, TRUE)
        ELSE IF isSentenceBoundary(r) THEN ScFlush(c, counted, FALSE)
        ELSE IF counted.count >= c.maxChars THEN ScFlush(c, counted, TRUE)
        ELSE counted

RECURSIVE ScLoop(_, _, _)
ScLoop(c, s, rs) == IF rs = <<>> THEN s ELSE ScLoop(c, ScLoopBody(c, s, Head(rs)), Tail(rs))

\* SentenceChunker.Split
ScSplit(c, text) ==
    LET trimmed == TrimSpace(text)
    IN  IF trimmed = <<>> THEN <<>>
        ELSE ScFlush(c, ScLoop(c, [chunks |-> <<>>, buf |-> <<>>, count |-> 0],
                               DecodeRunes(trimmed)), TRUE).chunks

ScInit == sc = [pc |-> "idle", maxChars |-> 0, text |-> <<>>, chunks |-> <<>>]

\* a chunker is made and Split is called on a text
ScDoSplit ==
    \E m \in ScMaxCharsArgs, text \in ScTexts :
        /\ sc.pc = "idle"
        /\ sc' = [pc |-> "done", maxChars |-> NewSentenceChunker(m).maxChars, text |-> text,
                  chunks |-> ScSplit(NewSentenceChunker(m), text)]
        /\ UNCHANGED <<genVars, grVars, flVars, gnVars, brVars, paVars, sgVars, stVars, fcVars, chVars, twVars, fpVars>>

ScNext == ScDoSplit

(***************************************************************************)
(* FixedSizeChunker (src/rag/retrieval/reranker.go:271-359).  Split is     *)
(* taken one pass of its loop at a time; indices count from 0 as in the    *)
(* code.                                                                   *)
(***************************************************************************)
\* the characters of the contents Split is called with
FcAlphabet == {"a", " ", "é"}

\* a content of ten characters without white space
FcTenChars == [i \in 1..10 |-> IF i % 2 = 1 THEN "é" ELSE "a"]

\* the contents Split is called with
FcContents == {EncodeRunes(rs) : rs \in RunesUpTo(FcAlphabet, MaxContentLen) \cup {FcTenChars}}

\* the chunkSize arguments of NewFixedSizeChunker
FcChunkSizeArgs == {0, 2, 4}

\* the overlap arguments of NewFixedSizeChunker
FcOverlapArgs == {-1, 0, 1, 4}

\* ChunkSize when the argument is not positive
FcDefaultChunkSize == 500

\* how far back from the end of a chunk a white space is looked for
FcLookBack == 50

NewFixedSizeChunker(chunkSize, overlap) ==
    LET size == IF chunkSize <= 0 THEN FcDefaultChunkSize ELSE chunkSize
    IN  [ChunkSize |-> size,
         Overlap |-> IF overlap < 0 \/ overlap >= size THEN size \div 10 ELSE overlap]

\* the end of the chunk that begins at start: the last white space of the
\* window when the chunk would stop short of the end of the text
FcEnd(c, runes, start) ==
    LET end == IF start + c.ChunkSize > Len(runes) THEN Len(runes) ELSE start + c.ChunkSize
        limit == IF end - FcLookBack < start THEN start ELSE end - FcLookBack
        spaces == {i \in limit..(end - 1) : IsSpace(runes[i + 1])}
    IN  IF end < Len(runes) /\ spaces # {}
        THEN CHOOSE i \in spaces : \A j \in spaces : j <= i
        ELSE end

\* the chunk cut out of the bytes of the text instead of its runes
FcChunkOfBytes(trimmed, runes, start, end) ==
    TrimSpace(SubSeq(trimmed, start + 1, end))

\* strings.TrimSpace(string(runes[start:end]))
FcChunk(trimmed, runes, start, end) ==
    TrimSpace(EncodeRunes(SubSeq(runes, start + 1, end)))

\* where the next chunk begins
FcNextStart(c, start, end) ==
    LET back == IF end - c.Overlap < 0 THEN 0 ELSE end - c.Overlap
    IN  IF back <= start THEN end ELSE back

FcIdle ==
    [pc |-> "idle", ChunkSize |-> 0, Overlap |-> 0, trimmed |-> <<>>, runes |-> <<>>,
     start |-> 0, chunks |-> <<>>]

FcInit == fc = FcIdle

\* a chunker is made and Split is called: the lines before the loop
FcDoSplit ==
    \E size \in FcChunkSizeArgs, overlap \in FcOverlapArgs, content \in FcContents :
        LET c == NewFixedSizeChunker(size, overlap)
            trimmed == TrimSpace(content)
            runes == DecodeRunes(trimmed)
            called == [FcIdle EXCEPT !.ChunkSize = c.ChunkSize, !.Overlap = c.Overlap,
                                     !.trimmed = trimmed, !.runes = runes]
        IN  /\ fc.pc = "idle"
            /\ fc' = IF trimmed = <<>> THEN [called EXCEPT !.pc = "done"]
                     ELSE IF Len(runes) <= c.ChunkSize
                          THEN [called EXCEPT !.pc = "done", !.chunks = <<trimmed>>]
                     ELSE [called EXCEPT !.pc = "loop"]
            /\ UNCHANGED <<genVars, grVars, flVars, gnVars, brVars, paVars, sgVars, stVars, scVars, chVars, twVars, fpVars>>

\* one pass of the loop of Split
FcLoop ==
    LET end == FcEnd(fc, fc.runes, fc.start)
        chunk == FcChunk(fc.trimmed, fc.runes, fc.start, end)
        next == FcNextStart(fc, fc.start, end)
        cut == [fc EXCEPT !.chunks = IF chunk # <<>> THEN Append(fc.chunks, chunk) ELSE fc.chunks]
    IN  /\ fc.pc = "loop"
        /\ fc.start < Len(fc.runes)
        /\ fc' = IF next >= Len(fc.runes) THEN [cut EXCEPT !.pc = "done"]
                 ELSE [cut EXCEPT !.start = next]
        /\ UNCHANGED <<genVars, grVars, flVars, gnVars, brVars, paVars, sgVars, stVars, scVars, chVars, twVars, fpVars>>

FcNext == FcDoSplit \/ FcLoop

(***************************************************************************)
(* Chain[I,O,Option] (src/unnamed/part_018), which Pipeline[I,O,Option]    *)
(* (src/unnamed/part_020:60-107) repeats line for line.  A runner adds d   *)
(* to its input, or returns an error when it is one that fails.            *)
(***************************************************************************)
ChRunners == {[d |-> 1, fails |-> FALSE], [d |-> 2, fails |-> FALSE], [d |-> 1, fails |-> TRUE]}

\* the state handlers NewChain is called with; "fail" returns an error
ChHandlers == Handlers \cup {"fail"}

NewChain(stateHandler, runners) == [stateHandler |-> stateHandler, runners |-> runners]

\* nothing called yet: the calls made to runners, the outputs they returned,
\* the items sent to the stream, and what the call returned
ChNoRet == [op |-> "none", input |-> 0, calls |-> <<>>, outputs |-> <<>>, items |-> <<>>,
            out |-> 0, err |-> "nil"]

RECURSIVE ChRunLoop(_, _, _, _)
\* the loop of Run over the runners rs that remain, with input as it stands
ChRunLoop(c, rs, input, ret) ==
    IF rs = <<>> THEN ret
    ELSE LET called == [ret EXCEPT !.calls = Append(ret.calls, [runner |-> Head(rs), input |-> input])]
         IN  IF Head(rs).fails THEN [called EXCEPT !.out = 0, !.err = "runner failed"]
             ELSE LET output == RunNode(Head(rs).d, input)
                      ran == [called EXCEPT !.outputs = Append(called.outputs, output),
                                            !.out = output]
                  IN  IF c.stateHandler = "fail" THEN [ran EXCEPT !.err = "handler failed"]
                      ELSE ChRunLoop(c, Tail(rs), ApplyHandler(c.stateHandler, output), ran)

\* Chain.Run
ChRun(c, input) == ChRunLoop(c, c.runners, input, [ChNoRet EXCEPT !.op = "Run", !.input = input])

RECURSIVE ChStreamLoop(_, _, _, _)
\* the loop of the producer of RunStream: input is never assigned
ChStreamLoop(c, rs, input, ret) ==
    IF rs = <<>> THEN ret
    ELSE LET called == [ret EXCEPT !.calls = Append(ret.calls, [runner |-> Head(rs), input |-> input])]
         IN  IF Head(rs).fails THEN [called EXCEPT !.err = "runner failed"]
             ELSE LET output == RunNode(Head(rs).d, input)
                  IN  ChStreamLoop(c, Tail(rs), input,
                                   [called EXCEPT !.outputs = Append(called.outputs, output),
                                                  !.items = Append(called.items, output)])

\* Chain.RunStream, with its producer run to the end
ChRunStream(c, input) ==
    ChStreamLoop(c, c.runners, input, [ChNoRet EXCEPT !.op = "RunStream", !.input = input])

ChInit ==
    /\ ch = NewChain("id", <<>>)
    /\ chRet = ChNoRet

ChDoNewChain ==
    \E h \in ChHandlers : \E n \in 0..MaxPipeline : \E rs \in [1..n -> ChRunners] :
        /\ ch' = NewChain(h, rs)
        /\ chRet' = ChNoRet
        /\ UNCHANGED <<genVars, grVars, flVars, gnVars, brVars, paVars, sgVars, stVars, scVars, fcVars, twVars, fpVars>>

ChDoRun ==
    \E input \in Inputs :
        /\ chRet' = ChRun(ch, input)
        /\ UNCHANGED <<ch, genVars, grVars, flVars, gnVars, brVars, paVars, sgVars, stVars, scVars, fcVars, twVars, fpVars>>

ChDoRunStream ==
    \E input \in Inputs :
        /\ chRet' = ChRunStream(ch, input)
        /\ UNCHANGED <<ch, genVars, grVars, flVars, gnVars, brVars, paVars, sgVars, stVars, scVars, fcVars, twVars, fpVars>>

ChNext == ChDoNewChain \/ ChDoRun \/ ChDoRunStream

(***************************************************************************)
(* The two-way branch node of src/unnamed/part_021: NewBranch(condition,   *)
(* a, b) keeps the runners as branch[0] and branch[1].  The node has no    *)
(* next node here; a runner is the number it adds to its prompt.           *)
(***************************************************************************)
\* the runners NewBranch is called with
TwRunners == {1, 2, 3}

\* what the condition returns when it is called
TwConditions == {"true", "false", "fail"}

\* NewBranch: branch[0] is kept as first, branch[1] as second
TwNewBranch(condition, a, b) == [condition |-> condition, branch |-> <<a, b>>]

\* nothing called yet: the runner that was run (0: none), what Run returned and
\* what the stream was sent
TwNoRet == [op |-> "none", prompt |-> 0, ran |-> 0, out |-> 0, items |-> <<>>, err |-> "nil"]

\* GraphNode.Run, branch case: both arms of the if take branch[0]
TwRunBranch(n, prompt) ==
    IF n.condition = "fail" THEN [TwNoRet EXCEPT !.op = "Run", !.prompt = prompt, !.err = "condition failed"]
    ELSE LET runner == IF n.condition = "true" THEN n.branch[1] ELSE n.branch[1]
         IN  [TwNoRet EXCEPT !.op = "Run", !.prompt = prompt, !.ran = runner,
                             !.out = RunNode(runner, prompt)]

\* GraphNode.RunStream, branch case: branch[0] when true, branch[1] when false
TwRunStreamBranch(n, prompt) ==
    IF n.condition = "fail"
    THEN [TwNoRet EXCEPT !.op = "RunStream", !.prompt = prompt, !.err = "condition failed"]
    ELSE LET runner == IF n.condition = "true" THEN n.branch[1] ELSE n.branch[2]
         IN  [TwNoRet EXCEPT !.op = "RunStream", !.prompt = prompt, !.ran = runner,
                             !.items = <<RunNode(runner, prompt)>>]

TwInit ==
    /\ tw = TwNewBranch("true", 1, 1)
    /\ twRet = TwNoRet

TwDoNewBranch ==
    \E c \in TwConditions, a \in TwRunners, b \in TwRunners :
        /\ tw' = TwNewBranch(c, a, b)
        /\ twRet' = TwNoRet
        /\ UNCHANGED <<genVars, grVars, flVars, gnVars, brVars, paVars, sgVars, stVars, scVars, fcVars, chVars, fpVars>>

TwDoRun ==
    \E prompt \in Inputs :
        /\ twRet' = TwRunBranch(tw, prompt)
        /\ UNCHANGED <<tw, genVars, grVars, flVars, gnVars, brVars, paVars, sgVars, stVars, scVars, fcVars, chVars, fpVars>>

TwDoRunStream ==
    \E prompt \in Inputs :
        /\ twRet' = TwRunStreamBranch(tw, prompt)
        /\ UNCHANGED <<tw, genVars, grVars, flVars, gnVars, brVars, paVars, sgVars, stVars, scVars, fcVars, chVars, fpVars>>

TwNext == TwDoNewBranch \/ TwDoRun \/ TwDoRunStream

(***************************************************************************)
(* flow.Parallel without a merger (src/flow/parallel.go): every goroutine  *)
(* assigns the results of its runner to the variables output and err that  *)
(* Run declares, and then tests err.  A runner adds delta to its input or  *)
(* fails with its error and the zero output.                               *)
(***************************************************************************)
FpRunners == {[delta |-> d, err |-> e] : d \in {1, 2}, e \in {"nil", "boom"}}

\* NewParallel
FpNewParallel(runners) == [runners |-> runners]

\* before Run: the goroutines' positions, the shared variables output and err, the
\* error the errgroup keeps, and what Run returned
FpIdle == [pc |-> "idle", input |-> 0, sib |-> <<>>, output |-> 0, err |-> "nil",
           egErr |-> "nil", out |-> 0, retErr |-> "nil"]

\* nothing returned yet by an earlier Run of this Parallel
FpNoPrev == [set |-> FALSE, input |-> 0, out |-> 0, retErr |-> "nil"]

\* Wait as it would be if it returned as soon as one goroutine had failed
FpWaitOverFirstError(run, n) ==
    \/ \A idx \in 1..n : run.sib[idx] = "returned"
    \/ run.egErr # "nil"

\* eg.Wait returns once every goroutine started with eg.Go has returned
FpWaitOver(run, n) == \A idx \in 1..n : run.sib[idx] = "returned"

FpInit ==
    /\ fp = FpNewParallel(<<>>)
    /\ fpRun = FpIdle
    /\ fpPrev = FpNoPrev

FpDoNewParallel ==
    \E n \in 0..MaxFanOut : \E runners \in [1..n -> FpRunners] :
        /\ fpRun.pc # "running"
        /\ \A idx \in DOMAIN fpRun.sib : fpRun.sib[idx] = "returned"
        /\ fp' = FpNewParallel(runners)
        /\ fpRun' = FpIdle
        /\ fpPrev' = FpNoPrev
        /\ UNCHANGED <<genVars, grVars, flVars, gnVars, brVars, paVars, sgVars, stVars, scVars, fcVars, chVars, twVars>>

\* Run up to eg.Wait: output and err are declared and every goroutine is started;
\* what the Run before returned is remembered
FpDoRun ==
    \E input \in Inputs :
        /\ fpRun.pc # "running"
        /\ \A idx \in DOMAIN fpRun.sib : fpRun.sib[idx] = "returned"
        /\ fpPrev' = IF fpRun.pc = "done"
                     THEN [set |-> TRUE, input |-> fpRun.input, out |-> fpRun.out,
                           retErr |-> fpRun.retErr]
                     ELSE fpPrev
        /\ fpRun' = [FpIdle EXCEPT !.pc = "running", !.input = input,
                                   !.sib = [i \in 1..Len(fp.runners) |-> "ready"]]
        /\ UNCHANGED <<fp, genVars, grVars, flVars, gnVars, brVars, paVars, sgVars, stVars, scVars, fcVars, chVars, twVars>>

\* goroutine idx calls runner.Run
FpSiblingCall ==
    \E idx \in DOMAIN fpRun.sib :
        /\ fpRun.sib[idx] = "ready"
        /\ fpRun' = [fpRun EXCEPT !.sib[idx] = "called"]
        /\ UNCHANGED <<fp, fpPrev, genVars, grVars, flVars, gnVars, brVars, paVars, sgVars, stVars, scVars, fcVars, chVars, twVars>>

\* runner.Run returns and goroutine idx assigns 'output, err = ...'
FpSiblingAssign ==
    \E idx \in DOMAIN fpRun.sib :
        /\ fpRun.sib[idx] = "called"
        /\ LET runner == fp.runners[idx]
           IN  fpRun' = [fpRun EXCEPT !.sib[idx] = "assigned",
                                      !.output = IF runner.err = "nil"
                                                 THEN RunNode(runner.delta, fpRun.input) ELSE 0,
                                      !.err = runner.err]
        /\ UNCHANGED <<fp, fpPrev, genVars, grVars, flVars, gnVars, brVars, paVars, sgVars, stVars, scVars, fcVars, chVars, twVars>>

\* goroutine idx tests the shared err and returns it, or nil, to the errgroup,
\* which keeps the first error it is given
FpSiblingReturn ==
    \E idx \in DOMAIN fpRun.sib :
        /\ fpRun.sib[idx] = "assigned"
        /\ fpRun' = [fpRun EXCEPT !.sib[idx] = "returned",
                                  !.egErr = IF fpRun.egErr = "nil" THEN fpRun.err
                                            ELSE fpRun.egErr]
        /\ UNCHANGED <<fp, fpPrev, genVars, grVars, flVars, gnVars, brVars, paVars, sgVars, stVars, scVars, fcVars, chVars, twVars>>

\* eg.Wait returns and Run returns output with the errgroup's error
FpWait ==
    /\ fpRun.pc = "running"
    /\ FpWaitOver(fpRun, Len(fp.runners))
    /\ fpRun' = [fpRun EXCEPT !.pc = "done", !.out = fpRun.output, !.retErr = fpRun.egErr]
    /\ UNCHANGED <<fp, fpPrev, genVars, grVars, flVars, gnVars, brVars, paVars, sgVars, stVars, scVars, fcVars, chVars, twVars>>

FpNext ==
    \/ FpDoNewParallel
    \/ FpDoRun
    \/ FpSiblingCall
    \/ FpSiblingAssign
    \/ FpSiblingReturn
    \/ FpWait

(***************************************************************************)
(* The specifications: every machine starts as constructed, one of them    *)
(* runs.                                                                   *)
(***************************************************************************)
vars == <<genVars, grVars, flVars, gnVars, brVars, paVars, sgVars, stVars, scVars, fcVars, chVars, twVars, fpVars>>

Init == GenInit /\ GrInit /\ FlInit /\ GnInit /\ BrInit /\ PaInit /\ SgInit /\ StInit /\ ScInit /\ FcInit /\ ChInit /\ TwInit /\ FpInit

SpecGeneric == Init /\ [][GenNext]_vars

SpecGenericNoTransform == Init /\ [][GenNoTransformNext]_vars

SpecGraph == Init /\ [][GrNext]_vars

SpecGraphCalls == Init /\ [][GrLogNext]_vars

SpecFlow == Init /\ [][FlNext]_vars

SpecFlowStream == Init /\ [][FlStreamNext]_vars

SpecNode == Init /\ [][GnNext]_vars

SpecFlowParallel == Init /\ [][FpNext]_vars

SpecTwoWay == Init /\ [][TwNext]_vars

SpecChain == Init /\ [][ChNext]_vars

SpecFixedSizeChunker == Init /\ [][FcNext]_vars

SpecSentenceChunker == Init /\ [][ScNext]_vars

SpecState == Init /\ [][StNext]_vars

SpecSentinel == Init /\ [][SgNext]_vars

SpecParallel == Init /\ [][PaNext]_vars

SpecBranch == Init /\ [][BrNext]_vars

(***************************************************************************)
(* Graph-theoretic vocabulary of the claims, over a set of directed edges  *)
(* given as pairs <<from, to>>.                                            *)
(***************************************************************************)
\* the nodes reachable from the set S along edges E (S itself included)
RECURSIVE ReachFrom(_, _)
ReachFrom(S, E) ==
    LET T == S \cup {e[2] : e \in {d \in E : d[1] \in S}}
    IN  IF T = S THEN S ELSE ReachFrom(T, E)

\* some node lies on a cycle of E
HasCycle(E) == \E e \in E : e[1] \in ReachFrom({e[2]}, E)

\* the sequences of distinct names: the linear chains n1 -> n2 -> ... -> nn
Chains == {c \in UNION {[1..n -> Names] : n \in 1..Cardinality(Names)} :
              \A i, j \in DOMAIN c : i # j => c[i] # c[j]}

GenEdgePairs(g) ==
    UNION {{<<from, g.edges[from][i].name>> : i \in 1..Len(g.edges[from])} :
              from \in DOMAIN g.edges}

\* g is exactly the linear chain c: its nodes, one edge per link, start c[1], end c[n]
GenIsChain(g, c) ==
    /\ DOMAIN g.nodes = Range(c)
    /\ g.starts = <<c[1]>>
    /\ g.ends = <<c[Len(c)]>>
    /\ DOMAIN g.edges = {c[k] : k \in 1..(Len(c) - 1)}
    /\ \A k \in 1..(Len(c) - 1) :
          /\ Len(g.edges[c[k]]) = 1
          /\ g.edges[c[k]][1].name = c[k + 1]

(***************************************************************************)
(* Claims about the generic graph (SpecGeneric).                           *)
(***************************************************************************)
\* C1: for a compiled linear chain n1 -> ... -> nn with start n1 and end nn, Run
\* invokes every node exactly once in chain order, node k+1 receives the
\* edge-transformed output of node k, and Run returns the output of nn.
C1_LinearRunVisitsChain ==
    (genRet.op = "Run" /\ genRunner = "fresh") =>
      \A c \in Chains :
        GenIsChain(gen, c) =>
            /\ genRet.err = "nil"
            /\ Len(genRet.trace) = Len(c)
            /\ \A k \in 1..Len(c) : genRet.trace[k].node = c[k]
            /\ genRet.trace[1].in = genRet.input
            /\ \A k \in 1..(Len(c) - 1) :
                  genRet.trace[k + 1].in =
                      ApplyHandler(gen.edges[c[k]][1].stateHandler, genRet.trace[k].out)
            /\ genRet.out = genRet.trace[Len(c)].out

\* C2: for a linear chain of n nodes RunStream delivers exactly n items, the k-th
\* being the output of the k-th node Run executes for the same input.
C2_LinearStreamItems ==
    (genRet.op = "RunStream" /\ genRunner = "fresh") =>
      \A c \in Chains :
        GenIsChain(gen, c) =>
            /\ Len(genRet.items) = Len(c)
            /\ Len(GenRun(gen, genRet.input).trace) = Len(c)
            /\ \A k \in 1..Len(c) :
                  genRet.items[k] = GenRun(gen, genRet.input).trace[k].out

\* C4: Compile succeeds if and only if every edge endpoint is a registered node,
\* the default edges are acyclic and every declared end is reachable from a start.
C4_CompileIffWellFormed ==
    genRet.op = "Compile" =>
        ((genRet.err = "nil") <=>
            /\ \A e \in GenEdgePairs(gen) : e[1] \in DOMAIN gen.nodes /\ e[2] \in DOMAIN gen.nodes
            /\ ~HasCycle(GenEdgePairs(gen))
            /\ Range(gen.ends) \subseteq ReachFrom(Range(gen.starts), GenEdgePairs(gen)))

\* C8: AddNode with a name that is already registered keeps the first registration:
\* a registered node is never replaced.
C8_FirstRegistrationKept ==
    [][\A n \in DOMAIN gen.nodes : n \in DOMAIN gen'.nodes /\ gen'.nodes[n] = gen.nodes[n]]_genVars

\* C10: a graph with no declared start or no declared end never compiles.
C10_NoStartOrEndNoCompile ==
    (genRet.op = "Compile" /\ (gen.starts = <<>> \/ gen.ends = <<>>)) => genRet.err # "nil"

(***************************************************************************)
(* Claims about the chaining graph (SpecGraph, SpecGraphCalls).            *)
(***************************************************************************)
GrEdgePairs(g) ==
    UNION {{<<from, g.edges[from][i].to>> : i \in 1..Len(g.edges[from])} :
              from \in DOMAIN g.edges}

GrFinishReachable(g) == g.finishPoint \in ReachFrom({g.entryPoint}, GrEdgePairs(g))

GrLogCollision(calls) ==
    \E c \in DOMAIN calls, d \in DOMAIN calls :
        /\ c # d \/ calls[c] > 1
        /\ c[1] = d[1]
        /\ CASE c[1] = "AddNode" -> c[2] = d[2]
             [] c[1] = "AddEdge" -> c[2] = d[2] /\ c[3] = d[3]
             [] OTHER -> TRUE

\* the logged calls replayed with every AddNode call first
RECURSIVE GrReplayNodesFirst(_, _)
GrReplayNodesFirst(g, calls) ==
    IF DOMAIN calls = {} THEN g
    ELSE LET c == CHOOSE x \in DOMAIN calls :
                      x[1] = "AddNode" \/ \A y \in DOMAIN calls : y[1] # "AddNode"
             rest == IF calls[c] = 1
                     THEN [x \in (DOMAIN calls) \ {c} |-> calls[x]]
                     ELSE [calls EXCEPT ![c] = calls[c] - 1]
         IN  GrReplayNodesFirst(GrApply(g, c), rest)

\* C9: a builder call naming a node that is not yet registered never fails by itself
\* (the builder records an error only for colliding calls), and Compile gives the
\* same verdict as for the same calls made with every AddNode call first.
C9_BuilderOrderIndependent ==
    /\ gr.err # "" => GrLogCollision(grCalls)
    /\ grRet.op = "Compile" =>
           ((grRet.err = "") <=> (GrCompile(GrReplayNodesFirst(GrNewGraph, grCalls)) = ""))

\* an edge naming an unregistered node was accepted by the builder and only Compile
\* reports it
C9_Witness ==
    /\ grRet.op = "Compile"
    /\ grRet.err = "edge to unknown node"
    /\ gr.err = ""

(***************************************************************************)
(* Claims about the runner-keyed graph (SpecFlow).                         *)
(***************************************************************************)
FlEdgePairs(g) == {<<from, g.edges[from]>> : from \in DOMAIN g.edges}

\* the default edges contain a cycle that can be reached from the start node
FlCycleFromStart(g) ==
    /\ g.start # ""
    /\ \E e \in FlEdgePairs(g) :
          /\ e[1] \in ReachFrom({g.start}, FlEdgePairs(g))
          /\ e[1] \in ReachFrom({e[2]}, FlEdgePairs(g))

\* an edge source, an edge target or a branch target is not a registered node
FlDangling(g) ==
    \/ \E e \in FlEdgePairs(g) : e[1] \notin g.nodes \/ e[2] \notin g.nodes
    \/ \E from \in DOMAIN g.branches : Range(g.branches[from].nodes) \ g.nodes # {}

\* the start node and every node an edge or a branch names are registered
FlAllRegistered(g) ==
    /\ g.start \in g.nodes
    /\ ~FlDangling(g)
    /\ DOMAIN g.branches \subseteq g.nodes

C7_UnregisteredRejected ==
    /\ (flRun.op = "Compile" /\ FlDangling(fl)) => flRun.err # "nil"
    /\ flRunner.graph = "fresh" => ~FlDangling(fl)
    /\ (flRun.op = "Run" /\ flRunner.graph = "fresh") =>
           /\ Range(flRun.trace) \subseteq fl.nodes
           /\ flRun.pc = "running" => flRun.current \in fl.nodes

\* Compile has just refused a graph whose only fault is an unregistered edge target
C7_Witness ==
    /\ flRun.op = "Compile"
    /\ flRun.err = "edge to node not registered"
    /\ fl.start \in fl.nodes

(***************************************************************************)
(* Claims about linked GraphNodes (SpecNode).                              *)
(***************************************************************************)
IsPrefix(p, q) == Len(p) <= Len(q) /\ \A i \in 1..Len(p) : p[i] = q[i]

\* C3: RunStream executes the identical sequence of nodes in the identical order as
\* Run for the same graph and input, and emits one item per executed node.
C3_StreamFollowsRun ==
    (gnRun.op = "RunStream" /\ gnSaved.valid /\ gnSaved.input = gnRun.input) =>
        /\ IsPrefix(gnRun.trace, gnSaved.trace)
        /\ (gnRun.pc = "done" /\ gnRun.err = "nil") =>
               /\ gnRun.trace = gnSaved.trace
               /\ Len(gnRun.items) = Len(gnRun.trace)

(***************************************************************************)
(* Claims about a runner after Compile (SpecGeneric).                      *)
(***************************************************************************)
GenNodeSeq(g, input) ==
    LET t == GenRun(g, input).trace IN [k \in 1..Len(t) |-> t[k].node]

\* C11: a Runner returned by Compile is immutable: no builder call made after
\* Compile changes the node sequence a later Run of that Runner executes.
C11_RunnerImmutable ==
    [][genRunner # "none" =>
          \A input \in Inputs : GenNodeSeq(gen', input) = GenNodeSeq(gen, input)]_genVars

(***************************************************************************)
(* Claims about end nodes (SpecGeneric).                                   *)
(***************************************************************************)
\* C12: after a successful Compile every declared end node has no outgoing edge,
\* and a Run or RunStream executes no node after a declared end node has executed.
C12_EndsAreTerminal ==
    /\ (genRet.op = "Compile" /\ genRet.err = "nil") =>
           \A e \in Range(gen.ends) : GenEdgesOf(gen, e) = <<>>
    /\ (genRet.op \in {"Run", "RunStream"} /\ genRunner = "fresh") =>
           \A k \in 1..(Len(genRet.trace) - 1) : genRet.trace[k].node \notin Range(gen.ends)

(***************************************************************************)
(* Claims about Branch (SpecBranch).                                       *)
(***************************************************************************)
\* C13: Branch.Run with a label present in the candidate map returns what that
\* candidate returns for the branch's input and runs no other candidate; with a
\* label absent from the map it fails with an error naming the label and runs no
\* candidate.
C13_BranchRunDispatch ==
    (brRet.op = "Run" /\ BrSelect(br.selector, brRet.input).err = "nil") =>
        LET label == BrSelect(br.selector, brRet.input).label
        IN  IF label \in DOMAIN br.runners
            THEN /\ brRet.out = BrRunRunner(br.runners[label], brRet.input).out
                 /\ brRet.err = BrRunRunner(br.runners[label], brRet.input).err
                 /\ brRet.calls = [BrNoCalls EXCEPT ![label] = 1]
            ELSE /\ brRet.err = "Branch: runner not found"
                 /\ brRet.label = label
                 /\ brRet.calls = BrNoCalls

C13_Witness ==
    /\ brRet.op = "Run"
    /\ brRet.err = "Branch: runner not found"
    /\ brRet.label = "B"
    /\ DOMAIN br.runners = {"A", "C"}

BrCallCount(calls) == calls["A"] + calls["B"] + calls["C"]

\* C14: a successful branch invocation, by Run or by RunStream, executes exactly
\* one of its candidates.
C14_ExactlyOneCandidate ==
    (brRet.op \in {"Run", "RunStream"} /\ brRet.err = "nil") => BrCallCount(brRet.calls) = 1

(***************************************************************************)
(* Claims about branches of the runner-keyed graph (SpecFlow).             *)
(***************************************************************************)
\* the node a Run went on to after the k-th node it executed: the next node of the
\* trace, the node it is about to execute, or "" when the run ended there
FlSuccessor(k) ==
    IF k < Len(flRun.trace) THEN flRun.trace[k + 1]
    ELSE IF flRun.pc = "running" THEN flRun.current
    ELSE ""

\* C15: after a node that has both a default edge and a branch (and has returned
\* without an error), the node the branch's label map gives is executed next, and
\* the default edge's target is not (unless the branch selects it).
C15_BranchOverridesDefault ==
    flRun.op = "Run" =>
        \A k \in 1..Len(flRun.trace) :
            LET n == flRun.trace[k]
            IN  (/\ n \in DOMAIN fl.branches
                 /\ n \in DOMAIN fl.edges
                 /\ ~(k = Len(flRun.trace) /\ flRun.err = "node failed")) =>
                    LET b == fl.branches[n]
                    IN  IF b.branch \in DOMAIN b.nodes
                        THEN FlSuccessor(k) = b.nodes[b.branch]
                        ELSE FlSuccessor(k) = "" /\ flRun.err # "nil"

C15_Witness ==
    /\ flRun.op = "Run"
    /\ flRun.pc = "done"
    /\ flRun.err = "nil"
    /\ flRun.trace = <<"A", "C">>
    /\ "A" \in DOMAIN fl.edges
    /\ fl.edges["A"] = "B"
    /\ "A" \in DOMAIN fl.branches

(***************************************************************************)
(* Claims about loop nodes (SpecNode).                                     *)
(***************************************************************************)
\* the head node is a loop and Run has just left it: Run has returned, or the
\* second node has not acted yet
GnHeadLoopLeft ==
    /\ gn # <<>>
    /\ gn[1].kind = "loop"
    /\ gnRun.op = "Run"
    /\ gnRun.err = "nil"
    /\ \/ Len(gn) = 1 /\ gnRun.pc = "done"
       \/ Len(gn) > 1 /\ gnRun.pc = "running" /\ gnRun.idx = 2 /\ gnRun.iterations = 0

\* the output of the k-th of k runs of runner r, each fed the output of the one before
RECURSIVE GnIterate(_, _, _)
GnIterate(r, input, k) == IF k = 0 THEN input ELSE RunNode(Delta[r], GnIterate(r, input, k - 1))

\* C16: a loop with maxIterations = k (2 unless set) and an always-true predicate
\* executes the wrapped node exactly k times, each iteration on the output of the one
\* before, and the loop's output is the k-th output.
C16_LoopRunsMaxIterations ==
    (GnHeadLoopLeft /\ gn[1].condition = "always" /\ gn[1].maxIterations >= 1) =>
        LET k == gn[1].maxIterations
        IN  /\ gnRun.trace = [i \in 1..k |-> gn[1].runner]
            /\ gnRun.prompt = GnIterate(gn[1].runner, gnRun.input, k)
            /\ Len(gn) = 1 => gnRun.last = <<GnIterate(gn[1].runner, gnRun.input, k)>>

C16_Witness ==
    /\ GnHeadLoopLeft
    /\ Len(gn) = 1
    /\ gn[1].condition = "always"
    /\ gn[1].maxIterations = 3
    /\ gnRun.trace = <<"B", "B", "B">>
    /\ gnRun.input = 10
    /\ gnRun.last = <<16>>

\* C17: in every execution of a loop node, by Run or by RunStream, the wrapped node
\* is executed at most maxIterations times, whatever the predicate returns.
C17_LoopBounded ==
    (gn # <<>> /\ gn[1].kind = "loop" /\ gnRun.op \in {"Run", "RunStream"} /\ gnRun.idx = 1) =>
        Len(gnRun.trace) <= gn[1].maxIterations

\* C18: a loop whose predicate is false before the first iteration executes the
\* wrapped node zero times and returns the original input unchanged as its output.
C18_LoopPassThrough ==
    (GnHeadLoopLeft /\ Len(gn) = 1 /\ gn[1].condition = "never" /\ gn[1].maxIterations >= 1) =>
        /\ gnRun.trace = <<>>
        /\ gnRun.last = <<gnRun.input>>

(***************************************************************************)
(* Claims about Parallel (SpecParallel).                                   *)
(***************************************************************************)
PaAllSucceed == \A i \in 1..Len(pa.runners) : pa.runners[i].err = "nil" /\ ~pa.runners[i].ctx

\* C19: Parallel.Run with N siblings that all succeed calls merge exactly once with
\* [o1..oN] in declaration order, whatever the order in which the siblings run and
\* complete, and returns merge's result.
C19_MergeInDeclarationOrder ==
    (paRun.pc \in {"running", "done", "panic"} /\ PaAllSucceed) =>
        /\ paRun.pc # "panic"
        /\ paRun.pc = "done" =>
               LET os == [i \in 1..Len(pa.runners) |-> RunNode(pa.runners[i].delta, paRun.input)]
               IN  /\ paRun.merged = 1
                   /\ paRun.mergeArg = os
                   /\ paRun.out = PaMerge(pa.merger, os).out
                   /\ paRun.err = PaMerge(pa.merger, os).err

\* C20: once a sibling has failed, Run returns exactly the first failing sibling's
\* error, merge is not invoked and no partial result is returned.
C20_FailFast ==
    (paRun.pc \in {"running", "done", "panic"} /\ paRun.egErr # "nil") =>
        /\ paRun.pc # "panic"
        /\ paRun.pc = "done" =>
               /\ paRun.err = paRun.egErr
               /\ paRun.merged = 0
               /\ paRun.out = 0

C22_ItemsBeforeError ==
    (gnRun.op = "RunStream" /\ gnRun.pc = "done" /\ gnRun.err # "nil") =>
        Len(gnRun.items) = Len(gnRun.trace)

(***************************************************************************)
(* Claims about the sentinel-keyed graph (SpecSentinel).                   *)
(***************************************************************************)
\* C23: once the run's context is canceled the engine invokes no further node, and
\* the run ends with the cancellation error.
C23_CancelStopsRun ==
    sgRun.canceled =>
        /\ Len(sgRun.trace) = sgRun.cancelAt
        /\ sgRun.pc = "done" => sgRun.err = "context canceled"

\* C29: no node is executed more than once in one Run or RunStream: when the
\* traversal comes back to a node already executed, the run stops with the cycle
\* error instead of executing it again.
C29_NoNodeTwice ==
    [][sgRun'.op = sgRun.op =>
          /\ \A i, j \in 1..Len(sgRun'.trace) : i # j => sgRun'.trace[i] # sgRun'.trace[j]
          /\ (sgRun.pc = "running" /\ sgRun.current \in Range(sgRun.trace)) =>
                 /\ sgRun'.trace = sgRun.trace
                 /\ \/ sgRun'.pc = "running" /\ sgRun'.canceled
                    \/ sgRun'.pc = "done" /\ sgRun'.err = "cycle detected"]_sgVars

C29_Witness ==
    /\ sgRun.pc = "done"
    /\ sgRun.err = "cycle detected"
    /\ sgRun.trace = <<"B", "A">>
    /\ DOMAIN sg.conditions = {"A"}

\* the messages a state holds: its prompt and every element of its history
StVisible(p) == {stHeap[p].Prompt} \cup Range(stHeap[p].History) \cup Range(stHeap[p].Metadata)

\* C24: every invocation that has started has a state of its own, and the
\* state its nodes fetch from the context holds only what that invocation
\* wrote: the prompt, the history and the metadata carry no message of the
\* other invocation, whether the two run one after the other or interleaved.
C24_StatePerInvocation ==
    \A i \in StInvocations :
        stInv[i].pc # "idle" =>
            /\ \A j \in StInvocations : (j # i /\ stInv[j].pc # "idle") => stInv[j].ctx # stInv[i].ctx
            /\ \A t \in StSiblings : stTask[i][t].state \in {0, stInv[i].ctx}
            /\ \A m \in StVisible(stInv[i].ctx) : m[1] = i

\* both invocations have run interleaved (the second began while the first
\* was in its fan-out) and both states hold history
C24_Witness ==
    /\ \A i \in StInvocations : stInv[i].pc = "done" /\ stInv[i].err = "nil"
    /\ \A i \in StInvocations : Len(stHeap[stInv[i].ctx].History) > 1
    /\ stHeap[stInv[1].ctx].History # stHeap[stInv[2].ctx].History

\* two siblings of one fan-out, which share the state of their invocation,
\* have conflicting accesses to one of its fields pending at once (History
\* at line 95, Prompt at line 87), with nothing ordering them
StDataRace ==
    \E i \in StInvocations : \E t, u \in StSiblings :
        /\ t # u
        /\ \/ stTask[i][t].pc = "store" /\ stTask[i][u].pc \in {"load", "store"}
           \/ stTask[i][t].pc = "start" /\ stTask[i][u].pc = "start"

\* C25: the siblings of a fan-out write the state without losing a write:
\* once every sibling has returned successfully the history holds the
\* message of each of them, and no two siblings ever have conflicting
\* accesses to a field of the state pending together.
C25_StateSynchronized ==
    /\ ~StDataRace
    /\ \A i \in StInvocations :
           (\A t \in StSiblings : stTask[i][t].pc = "done") =>
               \A t \in StSiblings : <<i, t>> \in Range(stHeap[stInv[i].ctx].History)

\* C26: no element of what SentenceChunker.Split returns is the empty
\* string, whatever the text (blank lines and trailing white space included).
C26_NoEmptyChunk ==
    sc.pc = "done" => \A k \in 1..Len(sc.chunks) : sc.chunks[k] # <<>>

RECURSIVE FcConcat(_)
\* the chunks joined in order
FcConcat(chunks) == IF chunks = <<>> THEN <<>> ELSE Head(chunks) \o FcConcat(Tail(chunks))

\* the runes rs are a contiguous run of the runes of the text
FcRunOf(rs, runes) ==
    \E off \in 0..(Len(runes) - Len(rs)) : SubSeq(runes, off + 1, off + Len(rs)) = rs

\* C27: when FixedSizeChunker.Split has returned, every chunk consists of
\* whole characters (it decodes without a replacement character and encodes
\* back to itself), has at most ChunkSize characters and is a contiguous run
\* of the characters of the trimmed input; and for an input without white
\* space and an overlap of 0 the chunks joined in order are the trimmed input
\* (ten characters with ChunkSize 4 give chunks of 4, 4 and 2 characters).
C27_ChunksOfWholeCharacters ==
    fc.pc = "done" =>
        /\ \A k \in 1..Len(fc.chunks) :
               LET rs == DecodeRunes(fc.chunks[k])
               IN  /\ ReplacementChar \notin Range(rs)
                   /\ EncodeRunes(rs) = fc.chunks[k]
                   /\ Len(rs) <= fc.ChunkSize
                   /\ FcRunOf(rs, fc.runes)
        /\ ((\A i \in 1..Len(fc.runes) : ~IsSpace(fc.runes[i])) /\ fc.Overlap = 0) =>
               /\ FcConcat(fc.chunks) = fc.trimmed
               /\ (Len(fc.runes) = 10 /\ fc.ChunkSize = 4) =>
                      [k \in 1..Len(fc.chunks) |-> Len(DecodeRunes(fc.chunks[k]))] = <<4, 4, 2>>

\* the ten characters, some of them two bytes wide, have been cut with
\* ChunkSize 4 and overlap 0
C27_Witness ==
    /\ fc.pc = "done"
    /\ fc.runes = FcTenChars
    /\ fc.ChunkSize = 4
    /\ fc.Overlap = 0
    /\ Len(fc.chunks) = 3
    /\ Len(fc.chunks[1]) = 6

\* C28: right after a Compile that succeeded, the default edges of the graph
\* contain no cycle at all, whether or not the cycle can be reached from the
\* start node (branches are not counted).
C28_AllDefaultEdgesAcyclic ==
    (flRun.op = "Compile" /\ flRun.err = "nil") => ~HasCycle(FlEdgePairs(fl))

\* C30: in Run and in RunStream alike each runner after the first is called
\* with the state handler's image of the output of the runner before it, and
\* what RunStream emits is, in order, the per-runner outputs that Run computes
\* for the same chain and input.
C30_StreamFollowsRun ==
    chRet.op \in {"Run", "RunStream"} =>
        /\ \A k \in 1..(Len(chRet.calls) - 1) :
               chRet.calls[k + 1].input = ApplyHandler(ch.stateHandler, chRet.outputs[k])
        /\ chRet.op = "RunStream" => chRet.items = ChRun(ch, chRet.input).outputs

\* C31: a branch node made by NewBranch(condition, a, b) runs a when the
\* condition is true and b when it is false, in Run and in RunStream alike.
C31_TwoWayBranch ==
    (twRet.op \in {"Run", "RunStream"} /\ twRet.err = "nil") =>
        twRet.ran = IF tw.condition = "true" THEN tw.branch[1] ELSE tw.branch[2]

\* C32: an edge added without a transform hands the upstream output on
\* unchanged: when every start node and every edge target is registered, a
\* Run over such edges returns no error and does not panic, and each node
\* reached over an edge receives the output of the node executed before it.
C32_NoTransformIsIdentity ==
    (/\ genRet.op = "Run"
     /\ gen.starts # <<>>
     /\ Range(gen.starts) \subseteq DOMAIN gen.nodes
     /\ GenCompile(gen) = "nil"
     /\ \A from \in DOMAIN gen.edges : \A i \in 1..Len(gen.edges[from]) :
            gen.edges[from][i].stateHandler = "nil") =>
        /\ genRet.err = "nil"
        /\ Len(genRet.trace) = 1 + Len(GenEdgesOf(gen, gen.starts[1]))
        /\ \A k \in 2..Len(genRet.trace) : genRet.trace[k].in = genRet.trace[k - 1].out

\* C33: a Run of a runner that Compile returned for the graph as it stands
\* executes finitely many nodes.  The successor of a node is a function of the
\* node alone when the selectors answer the same on every call, so a run that
\* comes back to a node it has executed goes round from there for ever: the
\* run ends only if it executes no node twice, and then after at most as many
\* executions as the graph has nodes.
C33_RunTerminates ==
    (flRun.op = "Run" /\ flRunner.graph = "fresh") =>
        /\ \A i, j \in 1..Len(flRun.trace) : i # j => flRun.trace[i] # flRun.trace[j]
        /\ Len(flRun.trace) <= Cardinality(fl.nodes)

\* C34: whenever the merger is called (every sibling has succeeded), the
\* context it is given is not canceled; the caller's context is never
\* canceled in this model, so a canceled merge context is the fan-out's own.
C34_MergeContextLive ==
    paRun.merged = 1 => ~paRun.mergeCanceled

\* C35: when Parallel.Run has returned, with or without an error, every
\* goroutine it started has returned: none is still ready to call its runner,
\* inside it, or about to write a result.
C35_ReturnsAfterAllSiblings ==
    fpRun.pc = "done" => \A idx \in 1..Len(fp.runners) : fpRun.sib[idx] = "returned"

\* Run has returned an error although a sibling succeeded, the failing one
\* having returned first
C35_Witness ==
    /\ fpRun.pc = "done"
    /\ fpRun.retErr = "boom"
    /\ Len(fp.runners) = 2
    /\ fp.runners[1].err = "boom"
    /\ fp.runners[2].err = "nil"
    /\ fpRun.out # 0

\* two goroutines of one Run are both about to assign the shared variables
\* output and err, or one is about to assign them while the other is about to
\* read err, with nothing ordering them
FpDataRace ==
    \E i, j \in DOMAIN fpRun.sib :
        /\ i # j
        /\ fpRun.sib[i] = "called"
        /\ fpRun.sib[j] \in {"called", "assigned"}

\* C36: no two goroutines of a Run have unordered accesses to one variable
\* pending, at least one of them a write; and what Run returns does not
\* depend on the order in which the siblings wrote: two Runs of the same
\* Parallel on the same input return the same output and error.
C36_OwnResultSlot ==
    /\ ~FpDataRace
    /\ (fpRun.pc = "done" /\ fpPrev.set /\ fpPrev.input = fpRun.input) =>
           /\ fpRun.out = fpPrev.out
           /\ fpRun.retErr = fpPrev.retErr

\* C37: the producer of graphRunner.RunStream never reads the last item of a
\* node's stream when the stream had none: no RunStream ends in a nil
\* dereference.
C37_NoMissingLastItem ==
    flRun.op = "RunStream" => flRun.err # "panic: nil pointer dereference"

\* C38: once a builder call has recorded an error, no later builder call
\* changes the graph (nodes, edges, entry point, finish point and the error
\* itself stay as they are), and a Compile of such a graph returns the
\* recorded error, hence no Executor.
C38_FirstErrorFreezesBuilder ==
    [][/\ gr.err # "" => gr' = gr
       /\ (grRet'.op = "Compile" /\ gr'.err # "") => grRet'.err = gr'.err]_grVars

\* Compile has returned the error recorded by a second AddNode of A, and a
\* SetEntryPoint and an AddEdge made after it have left the graph alone
C38_Witness ==
    /\ grRet.op = "Compile"
    /\ grRet.err = "node already exists"
    /\ gr.err = "node already exists"
    /\ gr.entryPoint = ""
    /\ gr.edges = EmptyMap
    /\ \E c \in DOMAIN grCalls : c[1] = "SetEntryPoint"
    /\ \E c \in DOMAIN grCalls : c[1] = "AddEdge"

\* C39: FixedSizeChunker.Split terminates, because every pass of its loop
\* moves the start of the next chunk forward: in every state of the loop the
\* next start computed from it is greater than the start, also when the chunk
\* ends at a white space.  (ChunkSize > 0 and 0 <= Overlap < ChunkSize hold for
\* every chunker NewFixedSizeChunker makes.)
C39_SplitAdvances ==
    (fc.pc = "loop" /\ fc.ChunkSize > 0 /\ 0 <= fc.Overlap /\ fc.Overlap < fc.ChunkSize) =>
        FcNextStart(fc, fc.start, FcEnd(fc, fc.runes, fc.start)) > fc.start

====
